---- MODULE Spec2Model ----
(***************************************************************************)
(* The documentation-comment engine of gdexport: the paragraph model, the  *)
(* comment classifier (ParsedDocumentation's constructor, ParseBlock,      *)
(* ParseVerbatim, ParseComments) and the renderer (WriteSingleLine,        *)
(* WriteVerbatim, Write, WriteOptionalSection, WriteDetailed,              *)
(* WriteAttributes) of src/extractdocvisitor.cpp.                          *)
(*                                                                         *)
(* A string is a sequence of atoms.  An atom is one character, or a run of *)
(* characters of a literal of the program none of which is whitespace, one *)
(* of the five XML special characters, ':' or '.'; no operation of the     *)
(* program looks inside such a run.  Command names, which the program only *)
(* compares for equality, are TLA+ strings.                                *)
(***************************************************************************)
EXTENDS Integers, Sequences, FiniteSets, TLC

VARIABLES
    className,    \* owner name handed to the constructor
    pc,           \* "parse": in the constructor's loop; "built": record constructed;
                  \* "absent": record constructed from no comment tree;
                  \* "written": a view of the record written; "crashed"
    doc,          \* top-level nodes of the comment tree the loop has passed, in order
    hasBriefTag,  \* the constructor's local flag
    record,       \* the ParsedDocumentation under construction
    call,         \* arguments of the last write call on the record
    out,          \* text the last write call put on the stream
    visitor       \* the ExtractDocVisitor of the translation unit and its traversal

vars == <<className, pc, doc, hasBriefTag, record, call, out, visitor>>

-----------------------------------------------------------------------------
(* Strings *)

\* std::numeric_limits<std::size_t>::max() and StringRef::npos: above every
\* string length (the largest integer of the checker stands for it).
npos == 2147483647

\* The characters StringRef::trim and find_first_[not_]of(" \t\n\v\f\r") look for.
Whitespace == {" ", "\t", "\n", "\\v", "\f", "\r"}

Min(a, b) == IF a < b THEN a ELSE b

\* Zero-based index of the first atom of s not in chars, or npos.
find_first_not_of(s, chars) ==
    IF \E i \in 1..Len(s) : s[i] \notin chars
    THEN (CHOOSE i \in 1..Len(s) :
            s[i] \notin chars /\ \A j \in 1..(i - 1) : s[j] \in chars) - 1
    ELSE npos

\* Zero-based index of the first atom of s at or after from that is in chars, or npos.
find_first_of(s, chars, from) ==
    IF \E i \in (from + 1)..Len(s) : s[i] \in chars
    THEN (CHOOSE i \in (from + 1)..Len(s) :
            s[i] \in chars /\ \A j \in (from + 1)..(i - 1) : s[j] \notin chars) - 1
    ELSE npos

\* StringRef::substr(start): the rest of s from zero-based start.
substr(s, start) == SubSeq(s, Min(start, Len(s)) + 1, Len(s))

\* StringRef::substr(start, n): at most n atoms of s from zero-based start.
substrn(s, start, n) == SubSeq(s, Min(start, Len(s)) + 1, Min(start + n, Len(s)))

ltrim(s) ==
    LET p == find_first_not_of(s, Whitespace)
    IN  IF p = npos THEN <<>> ELSE substr(s, p)

rtrim(s) ==
    IF \E i \in 1..Len(s) : s[i] \notin Whitespace
    THEN SubSeq(s, 1, CHOOSE i \in 1..Len(s) :
                        s[i] \notin Whitespace /\ \A j \in (i + 1)..Len(s) : s[j] \in Whitespace)
    ELSE <<>>

trim(s) == rtrim(ltrim(s))

RECURSIVE Concat(_)
\* All strings of the sequence ss joined.
Concat(ss) == IF ss = <<>> THEN <<>> ELSE Head(ss) \o Concat(Tail(ss))

-----------------------------------------------------------------------------
(* XML escaping *)

g_special == {"\"", "'", "<", ">", "&"}

\* EscapeChar leaving the apostrophe as it is.
EscapeCharNoApos(c) ==
    CASE c = "\"" -> <<"&", "q", "u", "o", "t", ";">>
      [] c = "<"  -> <<"&", "l", "t", ";">>
      [] c = ">"  -> <<"&", "g", "t", ";">>
      [] c = "&"  -> <<"&", "a", "m", "p", ";">>
      [] OTHER    -> <<c>>

\* The switch of operator<<(raw_ostream&, const XMLEscape&) on one character.
EscapeChar(c) ==
    CASE c = "\"" -> <<"&", "q", "u", "o", "t", ";">>
      [] c = "'"  -> <<"&", "a", "p", "o", "s", ";">>
      [] c = "<"  -> <<"&", "l", "t", ";">>
      [] c = ">"  -> <<"&", "g", "t", ";">>
      [] c = "&"  -> <<"&", "a", "m", "p", ";">>
      [] OTHER    -> <<c>>

RECURSIVE EscapeXML(_)
EscapeXML(str) ==
    IF str = <<>> THEN <<>> ELSE EscapeChar(Head(str)) \o EscapeXML(Tail(str))

-----------------------------------------------------------------------------
(* Paragraph model *)

ParagraphType == {"Normal", "List", "VerbatimText", "GDScript", "CSharpCode"}

Paragraph(type) == [Data |-> <<>>, Type |-> type]

\* Paragraph::empty
ParagraphEmpty(para) == \A i \in 1..Len(para.Data) : ltrim(para.Data[i]) = <<>>

\* Paragraph::push_front
push_front(para, str) ==
    LET first == para.Data[1]
        pos   == find_first_not_of(first, Whitespace)
        data  == IF para.Data # <<>> /\ pos # npos
                 THEN <<substr(first, pos)>> \o Tail(para.Data)
                 ELSE para.Data
    IN  [para EXCEPT !.Data = <<str>> \o data]

\* operator+=(Paragraph&, text)
AppendText(para, text) == [para EXCEPT !.Data = Append(@, text)]

\* operator+= with the comparison of the kinds left out
AppendParagraphAnyKind(para, text) ==
    [para EXCEPT !.Data = @ \o text.Data]

\* operator+=(Paragraph&, Paragraph&&)
AppendParagraph(para, text) ==
    IF para.Type = text.Type
    THEN [para EXCEPT !.Data = @ \o text.Data]
    ELSE para

\* operator+=(Paragraphs&, Paragraph)
AppendToParagraphs(paras, para) == Append(paras, para)

\* Title
Title(title) == <<"[b]">> \o title \o <<":[/b]", " ">>

\* ADMONITION's literal
AdmonitionLabel(title, color, symbol) ==
    <<"[color=", color, "]", "\\u00A0", symbol, "\\u00A0\\u00A0", "[b]">>
        \o title \o <<":[/b][/color]", " ">>

\* operator<<(raw_ostream&, ParagraphType)
TypeName(type) ==
    CASE type = "VerbatimText" -> <<"text">>
      [] type = "GDScript"     -> <<"gdscript">>
      [] type = "CSharpCode"   -> <<"csharp">>
      [] OTHER                 -> <<>>

StatusTag == [IsTagPresent |-> FALSE, Message |-> Paragraph("Normal")]

Tutorial(url, title) == [URL |-> url, Title |-> title]

Parameters(name, desc) == [Name |-> name, Description |-> desc]

\* A default-constructed ParsedDocumentation
EmptyDocumentation ==
    [ Detailed       |-> <<>>,
      Brief          |-> Paragraph("Normal"),
      Author         |-> <<>>,
      Copyright      |-> <<>>,
      Since          |-> <<>>,
      Version        |-> <<>>,
      Preconditions  |-> <<>>,
      Postconditions |-> <<>>,
      ReturnDesc     |-> Paragraph("Normal"),
      Deprecated     |-> StatusTag,
      Experimental   |-> StatusTag,
      Tutorials      |-> <<>>,
      ParameterDescs |-> <<>>,
      ReturnValues   |-> <<>> ]

-----------------------------------------------------------------------------
(* The comment tree (clang::comments) *)

\* One node of the tree.  name: command name; args: argument texts; text: the
\* text of a text or verbatim line; children: child nodes in document order;
\* index, isVarArg, paramName: of a parameter command.
Node(kind, name, args, text, children) ==
    [kind |-> kind, name |-> name, args |-> args, text |-> text,
     children |-> children, index |-> 0, isVarArg |-> FALSE, paramName |-> <<>>]

TextComment(text) == Node("TextComment", "", <<>>, text, <<>>)

InlineCommandComment(name, args) == Node("InlineCommandComment", name, args, <<>>, <<>>)

HTMLStartTagComment == Node("HTMLStartTagComment", "", <<>>, <<>>, <<>>)

ParagraphComment(children) == Node("ParagraphComment", "", <<>>, <<>>, children)

BlockCommandComment(name, args, children) ==
    Node("BlockCommandComment", name, args, <<>>, children)

VerbatimBlockLineComment(text) == Node("VerbatimBlockLineComment", "", <<>>, text, <<>>)

VerbatimBlockComment(name, children) ==
    Node("VerbatimBlockComment", name, <<>>, <<>>, children)

VerbatimLineComment(text) == Node("VerbatimLineComment", "", <<>>, text, <<>>)

ParamCommandComment(isVarArg, index, paramName, children) ==
    [Node("ParamCommandComment", "param", <<>>, <<>>, children)
        EXCEPT !.index = index, !.isVarArg = isVarArg, !.paramName = paramName]

TParamCommandComment(children) == Node("TParamCommandComment", "tparam", <<>>, <<>>, children)

-----------------------------------------------------------------------------
(* Inline command expansion *)

ReferenceKinds ==
    {<<"a","n","n","o","t","a","t","i","o","n">>, <<"c","o","n","s","t","a","n","t">>,
     <<"e","n","u","m">>, <<"m","e","m","b","e","r">>, <<"m","e","t","h","o","d">>,
     <<"c","o","n","s","t","r","u","c","t","o","r">>, <<"s","i","g","n","a","l">>,
     <<"t","h","e","m","e","_","i","t","e","m">>}

\* ParseReference taking the owner prefix of an operator without its period.
ParseReferenceNoPeriod(ref, owner) ==
    LET sep  == find_first_of(ref, {":"}, 0)
        type == substrn(ref, 0, sep)
        end  == find_first_of(ref, {"."}, sep + 1)
    IN  IF sep # npos /\ type = <<"o","p","e","r","a","t","o","r">>
        THEN IF end # npos
             THEN <<"[operator", " ">> \o substrn(ref, sep + 1, end - sep - 1)
                      \o <<"operator", " ">> \o substr(ref, end + 1) \o <<"]">>
             ELSE <<"[operator", " ">> \o owner \o <<".", "operator", " ">>
                      \o substr(ref, sep + 1) \o <<"]">>
        ELSE IF sep # npos /\ type \in ReferenceKinds
        THEN IF end # npos
             THEN <<"[">> \o type \o <<" ">> \o substr(ref, sep + 1) \o <<"]">>
             ELSE <<"[">> \o type \o <<" ">> \o owner \o <<".">>
                      \o substr(ref, sep + 1) \o <<"]">>
        ELSE <<"[">> \o ref \o <<"]">>

\* ParseReference
ParseReference(ref, owner) ==
    LET sep  == find_first_of(ref, {":"}, 0)
        type == substrn(ref, 0, sep)
        end  == find_first_of(ref, {"."}, sep + 1)
    IN  IF sep # npos /\ type = <<"o","p","e","r","a","t","o","r">>
        THEN IF end # npos
             THEN <<"[operator", " ">> \o substrn(ref, sep + 1, end - sep)
                      \o <<"operator", " ">> \o substr(ref, end + 1) \o <<"]">>
             ELSE <<"[operator", " ">> \o owner \o <<".", "operator", " ">>
                      \o substr(ref, sep + 1) \o <<"]">>
        ELSE IF sep # npos /\ type \in ReferenceKinds
        THEN IF end # npos
             THEN <<"[">> \o type \o <<" ">> \o substr(ref, sep + 1) \o <<"]">>
             ELSE <<"[">> \o type \o <<" ">> \o owner \o <<".">>
                      \o substr(ref, sep + 1) \o <<"]">>
        ELSE <<"[">> \o ref \o <<"]">>

RECURSIVE AppendArgs(_, _, _)
\* The loop over the arguments after the first (each its own span, after one space).
AppendArgs(result, args, i) ==
    IF i > Len(args) THEN result
    ELSE AppendArgs(AppendText(result, <<" ">> \o args[i]), args, i + 1)

\* ParseInlineCommand with p leaving the owner out.
ParseInlineCommandNoOwner(result, comment, owner) ==
    LET numArgs == Len(comment.args)
        cmd     == comment.name
        arg     == IF numArgs > 0 THEN comment.args[1] ELSE <<>>
        first   ==
            CASE cmd = "a"   -> AppendText(result, <<"[param", " ">> \o arg \o <<"]">>)
              [] cmd = "b"   -> AppendText(result, <<"[b]">> \o arg \o <<"[/b]">>)
              [] cmd = "c"   -> AppendText(result, <<"[code]">> \o arg \o <<"[/code]">>)
              [] cmd \in {"e", "em"}
                             -> AppendText(result, <<"[i]">> \o arg \o <<"[/i]">>)
              [] cmd = "n"   -> AppendText(result, <<"[br]">>)
              [] cmd = "p"   -> AppendText(result, <<"[member", " ">> \o arg \o <<"]">>)
              [] cmd = "ref" -> AppendText(result, ParseReference(arg, owner))
              [] OTHER       -> IF arg # <<>> THEN AppendText(result, arg) ELSE result
    IN  AppendArgs(first, comment.args, 2)

\* case InlineCommandComment of ParseComments
ParseInlineCommand(result, comment, owner) ==
    LET numArgs == Len(comment.args)
        cmd     == comment.name
        arg     == IF numArgs > 0 THEN comment.args[1] ELSE <<>>
        first   ==
            CASE cmd = "a"   -> AppendText(result, <<"[param", " ">> \o arg \o <<"]">>)
              [] cmd = "b"   -> AppendText(result, <<"[b]">> \o arg \o <<"[/b]">>)
              [] cmd = "c"   -> AppendText(result, <<"[code]">> \o arg \o <<"[/code]">>)
              [] cmd \in {"e", "em"}
                             -> AppendText(result, <<"[i]">> \o arg \o <<"[/i]">>)
              [] cmd = "n"   -> AppendText(result, <<"[br]">>)
              [] cmd = "p"   -> AppendText(result,
                                    <<"[member", " ">> \o owner \o <<".">> \o arg \o <<"]">>)
              [] cmd = "ref" -> AppendText(result, ParseReference(arg, owner))
              [] OTHER       -> IF arg # <<>> THEN AppendText(result, arg) ELSE result
    IN  AppendArgs(first, comment.args, 2)

RECURSIVE ParseComments(_, _)
RECURSIVE ParseChildren(_, _, _)

\* One iteration of ParseComments's loop: child added to result.
ParseChild(result, child, owner) ==
    CASE child.kind \in {"BlockCommandComment", "ParagraphComment"}
            -> AppendParagraph(result, ParseComments(child, owner))
      [] child.kind = "TextComment"
            -> AppendText(result, child.text)
      [] child.kind = "InlineCommandComment"
            -> ParseInlineCommand(result, child, owner)
      [] OTHER -> result

ParseChildren(result, children, owner) ==
    IF children = <<>> THEN result
    ELSE ParseChildren(ParseChild(result, Head(children), owner), Tail(children), owner)

\* ParseComments with the kind of a list item given to result before the loop.
ParseCommentsKindFirst(comment, owner) ==
    ParseChildren(Paragraph(IF comment.name = "li" THEN "List" ELSE "Normal"),
                  comment.children, owner)

\* ParseComments<T>: the Normal paragraph collected from the children of comment.
ParseComments(comment, owner) ==
    ParseChildren(Paragraph("Normal"), comment.children, owner)

-----------------------------------------------------------------------------
(* The classifier: ParsedDocumentation's constructor, ParseBlock, ParseVerbatim *)

\* unsigned: the type of a parameter index.  UIntMax stands for ~0U, which
\* clang uses as ParamCommandComment::InvalidParamIndex; UIntSucc is idx+1 in
\* that type, which wraps to 0.
UIntMax == 2147483647


\* UIntSucc off by one: resize(idx) in place of resize(idx+1).
UIntSuccSame(idx) == idx

UIntSucc(idx) == IF idx = UIntMax THEN 0 ELSE idx + 1


\* ParagraphsField with the version branch appending to Since.
ParagraphsFieldVersion(command) ==
    CASE command \in {"author", "authors"} -> "Author"
      [] command = "copyright"             -> "Copyright"
      [] command \in {"since", "version"}  -> "Since"
      [] command = "pre"                   -> "Preconditions"
      [] command = "pos"                   -> "Postconditions"
      [] OTHER                             -> "Detailed"

\* The block commands whose paragraph ParseBlock appends to one Paragraphs
\* member, and (the final else) every command it does not know: the member.
ParagraphsField(command) ==
    CASE command \in {"author", "authors"} -> "Author"
      [] command = "copyright"             -> "Copyright"
      [] command = "since"                 -> "Since"
      [] command = "pre"                   -> "Preconditions"
      [] command = "pos"                   -> "Postconditions"
      [] command = "version"               -> "Version"
      [] OTHER                             -> "Detailed"

\* The ADMONITION call of each admonition command.
Admonition(command) ==
    CASE command = "attention" -> AdmonitionLabel(<<"Attention">>, "aa6600", "\\u26A0")
      [] command = "bug"       -> AdmonitionLabel(<<"Bug">>, "dd3311", "\\u2620")
      [] command = "note"      -> AdmonitionLabel(<<"Note">>, "008855", "\\u2606")
      [] command = "remark"    -> AdmonitionLabel(<<"Remark">>, "0077cc", "\\u2605")
      [] command = "todo"      -> AdmonitionLabel(<<"TODO">>, "aa44dd", "\\U0001F5F9\\uFE0E")
      [] command = "warning"   -> AdmonitionLabel(<<"Warning">>, "ee0022", "\\u26A0")

AdmonitionCommands == {"attention", "bug", "note", "remark", "todo", "warning"}


\* DemoteBrief with push_back in place of push_front.
DemoteBriefLast(detailed, brief) == AppendToParagraphs(detailed, brief)

\* The demotion of the brief paragraph into Detailed (Detailed += Brief when
\* Detailed has no paragraph, Detailed.push_front(Brief) otherwise).
DemoteBrief(detailed, brief) ==
    IF detailed = <<>> THEN AppendToParagraphs(detailed, brief)
    ELSE <<brief>> \o detailed


\* BriefCommand without the test of the flag: every brief command demotes.
BriefCommandNoFlag(rec, flag, paragraph) ==
    IF ~ParagraphEmpty(rec.Brief)
    THEN [rec EXCEPT !.Detailed = <<rec.Brief>> \o @, !.Brief = paragraph]
    ELSE [rec EXCEPT !.Brief = paragraph]

\* The brief branch of ParseBlock; the flag is set by the caller of this branch.
BriefCommand(rec, flag, paragraph) ==
    IF ~ParagraphEmpty(rec.Brief)
    THEN IF ~flag
         THEN [rec EXCEPT !.Detailed = DemoteBrief(@, rec.Brief), !.Brief = paragraph]
         ELSE [rec EXCEPT !.Brief = AppendParagraph(@, paragraph)]
    ELSE [rec EXCEPT !.Brief = paragraph]

\* TutorialCommand taking the URL from a span that is not trimmed first.
TutorialCommandUntrimmed(rec, paragraph) ==
    LET data  == paragraph.Data
        found == \E i \in 1..Len(data) : ltrim(data[i]) # <<>>
        it    == CHOOSE i \in 1..Len(data) :
                    ltrim(data[i]) # <<>> /\ \A j \in 1..(i - 1) : ltrim(data[j]) = <<>>
        str   == data[it]
        pos   == find_first_of(str, Whitespace, 0)
        url   == IF pos = npos THEN str ELSE substrn(str, 0, pos)
        rest  == IF pos = npos
                 THEN SubSeq(data, 1, it - 1) \o SubSeq(data, it + 1, Len(data))
                 ELSE [data EXCEPT ![it] = ltrim(substr(str, pos + 1))]
    IN  IF found
        THEN [rec EXCEPT !.Tutorials =
                  Append(@, Tutorial(url, [paragraph EXCEPT !.Data = rest]))]
        ELSE rec

\* The tutorial branch of ParseBlock.
TutorialCommand(rec, paragraph) ==
    LET data  == paragraph.Data
        found == \E i \in 1..Len(data) : ltrim(data[i]) # <<>>
        it    == CHOOSE i \in 1..Len(data) :
                    ltrim(data[i]) # <<>> /\ \A j \in 1..(i - 1) : ltrim(data[j]) = <<>>
        str   == trim(data[it])
        pos   == find_first_of(str, Whitespace, 0)
        url   == IF pos = npos THEN str ELSE substrn(str, 0, pos)
        rest  == IF pos = npos
                 THEN SubSeq(data, 1, it - 1) \o SubSeq(data, it + 1, Len(data))
                 ELSE [data EXCEPT ![it] = ltrim(substr(str, pos + 1))]
    IN  IF found
        THEN [rec EXCEPT !.Tutorials =
                  Append(@, Tutorial(url, [paragraph EXCEPT !.Data = rest]))]
        ELSE rec

\* ParseBlock: the record and the flag after the block command.
ParseBlock(rec, flag, block, owner) ==
    LET command   == block.name
        paragraph == ParseComments(block, owner)
        same(r)   == [record |-> r, hasBriefTag |-> flag]
    IN  CASE command \in AdmonitionCommands ->
               same([rec EXCEPT !.Detailed =
                        AppendToParagraphs(@, push_front(paragraph, Admonition(command)))])
          [] command = "brief" ->
               [record |-> BriefCommand(rec, flag, paragraph), hasBriefTag |-> TRUE]
          [] command = "deprecated" ->
               same([rec EXCEPT !.Deprecated = [IsTagPresent |-> TRUE, Message |-> paragraph]])
          [] command = "experimental" ->
               same([rec EXCEPT !.Experimental = [IsTagPresent |-> TRUE, Message |-> paragraph]])
          [] command = "li" ->
               same([rec EXCEPT !.Detailed =
                        AppendToParagraphs(@, [paragraph EXCEPT !.Type = "List"])])
          [] command = "par" ->
               same([rec EXCEPT !.Detailed = AppendToParagraphs(@,
                        IF Len(block.args) > 0
                        THEN push_front(paragraph, Title(block.args[1]))
                        ELSE paragraph)])
          [] command \in {"result", "return", "returns"} ->
               same([rec EXCEPT !.ReturnDesc = AppendParagraph(@, paragraph)])
          [] command = "retval" ->
               same([rec EXCEPT !.ReturnValues = Append(@,
                        IF Len(block.args) > 0
                        THEN Parameters(block.args[1], paragraph)
                        ELSE Parameters(<<>>, paragraph))])
          [] command = "tutorial" ->
               same(TutorialCommand(rec, paragraph))
          [] OTHER ->
               same([rec EXCEPT ![ParagraphsField(command)] = AppendToParagraphs(@, paragraph)])


\* CodeType comparing the line as it stands, without trim.
CodeTypeUntrimmed(text) ==
    CASE text = <<"{", ".", "g", "d", "}">> -> "GDScript"
      [] text = <<"{", ".", "c", "s", "}">> -> "CSharpCode"
      [] OTHER                              -> ""

\* The language marker a first line of a code block selects, or "" for none.
CodeType(text) ==
    CASE trim(text) = <<"{", ".", "g", "d", "}">> -> "GDScript"
      [] trim(text) = <<"{", ".", "c", "s", "}">> -> "CSharpCode"
      [] OTHER                                    -> ""

RECURSIVE AppendLines(_, _)
\* The loop of ParseVerbatim that adds the text of every line child to para.
AppendLines(para, children) ==
    IF children = <<>> THEN para
    ELSE AppendLines(IF Head(children).kind = "VerbatimBlockLineComment"
                     THEN AppendText(para, Head(children).text)
                     ELSE para,
                     Tail(children))

\* ParseVerbatim: the Detailed sequence after the verbatim block.
ParseVerbatim(detailed, command, block) ==
    LET lines   == block.children
        isLine(i) == lines[i].kind = "VerbatimBlockLineComment"
        \* position of the first line child (one past the end when there is none)
        first   == IF \E i \in 1..Len(lines) : isLine(i)
                   THEN CHOOSE i \in 1..Len(lines) : isLine(i) /\ \A j \in 1..(i - 1) : ~isLine(j)
                   ELSE Len(lines) + 1
        marker  == IF command = "code" /\ first <= Len(lines)
                   THEN CodeType(lines[first].text) ELSE ""
        lineIt  == IF command # "code" THEN 1
                   ELSE IF marker # "" THEN first + 1 ELSE first
        paraType == IF marker # "" THEN marker ELSE "VerbatimText"
    IN  Append(detailed, AppendLines(Paragraph(paraType), SubSeq(lines, lineIt, Len(lines))))

\* std::vector<Parameters>::resize
Resize(list, n) ==
    IF n <= Len(list) THEN SubSeq(list, 1, n)
    ELSE list \o [i \in 1..(n - Len(list)) |-> Parameters(<<>>, Paragraph("Normal"))]

NoCall == [mode |-> "none", printBrief |-> FALSE, printFunctionInfo |-> FALSE, indent |-> 0]

\* An unordered_map with no entry.
EmptyMap == [key \in {} |-> {}]

\* ExtractDocVisitor's constructor (and ExtractInterfaceVisitor's): no class
\* is open, every collection is empty; no declaration has been traversed.
NewVisitor ==
    [ currentClass   |-> <<>>,
      inClass        |-> FALSE,
      inEnum         |-> "None",
      classes        |-> <<>>,
      baseProperties |-> EmptyMap,      \* ExtractInterfaceVisitor::properties
      baseSignals    |-> <<>>,          \* ExtractInterfaceVisitor::signals
      file           |-> FALSE,         \* the XML stream of the class is open
      methods        |-> EmptyMap,
      properties     |-> EmptyMap,
      signals        |-> EmptyMap,
      constants      |-> EmptyMap,
      frames         |-> <<>>,          \* activations of TraverseCXXRecordDecl
      decls          |-> <<>>,          \* declarations the traversal has passed, in order
      bindings       |-> <<>>,          \* what the base Process* methods wrote, in order
      documents      |-> <<>> ]         \* the XML files written, in order

Init ==
    /\ className \in {<<"P", "l", "a", "y", "e", "r">>}
    /\ pc = "parse"
    /\ doc = <<>>
    /\ hasBriefTag \in BOOLEAN    \* bool hasBriefTag; is read before it is ever written
    /\ record = EmptyDocumentation
    /\ call = NoCall
    /\ out = <<>>
    /\ visitor = NewVisitor

\* case BlockCommandComment of the constructor's loop
BlockCommand(block) ==
    /\ pc = "parse"
    /\ block.kind = "BlockCommandComment"
    /\ LET r == ParseBlock(record, hasBriefTag, block, className)
       IN  /\ record' = r.record
           /\ hasBriefTag' = r.hasBriefTag
    /\ doc' = Append(doc, block)
    /\ UNCHANGED <<className, pc, call, out, visitor>>

\* case ParagraphComment of the constructor's loop
TopLevelParagraph(block) ==
    /\ pc = "parse"
    /\ block.kind = "ParagraphComment"
    /\ IF ~hasBriefTag /\ ParagraphEmpty(record.Brief)
       THEN record' = [record EXCEPT !.Brief = ParseComments(block, className)]
       ELSE record' = [record EXCEPT !.Detailed =
                          AppendToParagraphs(@, ParseComments(block, className))]
    /\ doc' = Append(doc, block)
    /\ UNCHANGED <<className, pc, hasBriefTag, call, out, visitor>>

\* case VerbatimBlockComment of the constructor's loop
VerbatimBlock(block) ==
    /\ pc = "parse"
    /\ block.kind = "VerbatimBlockComment"
    /\ record' = [record EXCEPT !.Detailed = ParseVerbatim(@, block.name, block)]
    /\ doc' = Append(doc, block)
    /\ UNCHANGED <<className, pc, hasBriefTag, call, out, visitor>>

\* case VerbatimLineComment of the constructor's loop
VerbatimLine(line) ==
    /\ pc = "parse"
    /\ line.kind = "VerbatimLineComment"
    /\ record' = [record EXCEPT !.Detailed =
                     Append(@, AppendText(Paragraph("VerbatimText"), trim(line.text)))]
    /\ doc' = Append(doc, line)
    /\ UNCHANGED <<className, pc, hasBriefTag, call, out, visitor>>

\* case ParamCommandComment of the constructor's loop.  When idx+1 wraps, the
\* list is resized to nothing and ParameterDescs[idx] is a write outside it:
\* the program crashes, or the write lands outside the record.
ParamCommand(block) ==
    /\ pc = "parse"
    /\ block.kind = "ParamCommandComment"
    /\ IF block.isVarArg
       THEN UNCHANGED <<record, pc>>
       ELSE LET idx     == block.index
                resized == IF Len(record.ParameterDescs) <= idx
                           THEN Resize(record.ParameterDescs, UIntSucc(idx))
                           ELSE record.ParameterDescs
            IN  IF idx < Len(resized)
                THEN /\ record' = [record EXCEPT !.ParameterDescs =
                            [resized EXCEPT ![idx + 1] =
                                Parameters(block.paramName, ParseComments(block, className))]]
                     /\ pc' = pc
                ELSE /\ record' = [record EXCEPT !.ParameterDescs = resized]
                     /\ pc' \in {pc, "crashed"}
    /\ doc' = Append(doc, block)
    /\ UNCHANGED <<className, hasBriefTag, call, out, visitor>>

\* default of the constructor's loop: any other top-level node is passed over
OtherComment(node) ==
    /\ pc = "parse"
    /\ node.kind \notin {"BlockCommandComment", "ParagraphComment", "VerbatimBlockComment",
                         "VerbatimLineComment", "ParamCommandComment"}
    /\ doc' = Append(doc, node)
    /\ UNCHANGED <<className, pc, hasBriefTag, record, call, out, visitor>>

\* if(doc) fails: the comment tree is absent, the constructor returns with
\* every field as its default constructor left it
AbsentComment ==
    /\ pc = "parse"
    /\ doc = <<>>
    /\ pc' = "absent"
    /\ UNCHANGED <<className, doc, hasBriefTag, record, call, out, visitor>>

\* the loop reaches doc->child_end(): the constructor returns
EndOfComment ==
    /\ pc = "parse"
    /\ pc' = "built"
    /\ UNCHANGED <<className, doc, hasBriefTag, record, call, out, visitor>>

-----------------------------------------------------------------------------
(* The renderer *)

\* raw_ostream::indent
Indent(indent) == [i \in 1..indent |-> " "]

\* The bullet of a list item, and the bulleted bold name of a parameter line.
Bullet == <<"\\u00A0\\u2022\\u00A0\\u00A0">>

NamePrefix(name) == Bullet \o <<"[b][code]">> \o name \o <<"[/code]:[/b]", " ">>

\* What a write function returns with the text it put on the stream.
Written(text, flag) == [text |-> text, written |-> flag]

RECURSIVE WriteSpans(_, _, _, _, _, _)
\* The for loop of WriteSingleLine over the spans before position end.
WriteSpans(data, it, end, indent, prefix, acc) ==
    IF it >= end THEN acc
    ELSE LET str == data[it]
             now == IF Len(str) > 0
                    THEN Written(acc.text
                                   \o (IF ~acc.written
                                       THEN Indent(indent) \o EscapeXML(prefix) \o EscapeXML(ltrim(str))
                                       ELSE EscapeXML(str)),
                                 TRUE)
                    ELSE acc
         IN  WriteSpans(data, it + 1, end, indent, prefix, now)

\* WriteSingleLine writing the prefix of a paragraph of blank spans too.
WriteSingleLineBlankLabel(para, indent, prefix) ==
    LET data == para.Data
        \* where the while loop leaves end: the last span that is not blank
        \* after rtrim, or the first span when every span is
        end  == IF \E i \in 1..Len(data) : rtrim(data[i]) # <<>>
                THEN CHOOSE i \in 1..Len(data) :
                        rtrim(data[i]) # <<>> /\ \A j \in (i + 1)..Len(data) : rtrim(data[j]) = <<>>
                ELSE 1
        last == rtrim(data[end])
        body == WriteSpans(data, 1, end, indent, prefix, Written(<<>>, FALSE))
    IN  IF data = <<>> THEN Written(<<>>, FALSE)
        ELSE IF last # <<>>
        THEN Written(body.text
                       \o (IF ~body.written
                           THEN Indent(indent) \o EscapeXML(prefix) \o EscapeXML(ltrim(last))
                           ELSE EscapeXML(last)),
                     TRUE)
        ELSE Written(body.text \o Indent(indent) \o EscapeXML(prefix), FALSE)

\* WriteSingleLine
WriteSingleLine(para, indent, prefix) ==
    LET data == para.Data
        \* where the while loop leaves end: the last span that is not blank
        \* after rtrim, or the first span when every span is
        end  == IF \E i \in 1..Len(data) : rtrim(data[i]) # <<>>
                THEN CHOOSE i \in 1..Len(data) :
                        rtrim(data[i]) # <<>> /\ \A j \in (i + 1)..Len(data) : rtrim(data[j]) = <<>>
                ELSE 1
        last == rtrim(data[end])
        body == WriteSpans(data, 1, end, indent, prefix, Written(<<>>, FALSE))
    IN  IF data = <<>> THEN Written(<<>>, FALSE)
        ELSE IF last # <<>>
        THEN Written(body.text
                       \o (IF ~body.written
                           THEN Indent(indent) \o EscapeXML(prefix) \o EscapeXML(ltrim(last))
                           ELSE EscapeXML(last)),
                     TRUE)
        ELSE body

RECURSIVE StripAmountAllLines(_, _)
\* StripAmount counting the lines of white space only too.
StripAmountAllLines(data, amount) ==
    IF data = <<>> THEN amount
    ELSE LET wsLen == find_first_not_of(Head(data), Whitespace)
         IN  StripAmountAllLines(Tail(data),
                 IF wsLen # npos THEN Min(amount, wsLen) ELSE Min(amount, Len(Head(data))))

RECURSIVE StripAmount(_, _)
\* The first loop of WriteVerbatim: the least leading-whitespace length of a
\* line that has a character that is not whitespace, from amount on.
StripAmount(data, amount) ==
    IF data = <<>> THEN amount
    ELSE LET wsLen == find_first_not_of(Head(data), Whitespace)
         IN  StripAmount(Tail(data), IF wsLen # npos THEN Min(amount, wsLen) ELSE amount)

\* One line as the second loop of WriteVerbatim writes it.
VerbatimLineText(part, stripAmount, indent) ==
    Indent(indent)
      \o (IF Len(part) > stripAmount
          THEN EscapeXML(rtrim(substr(part, stripAmount))) \o <<"\n">>
          ELSE <<"\n">>)

\* WriteVerbatim
WriteVerbatim(para, indent) ==
    LET stripAmount == StripAmount(para.Data, npos)
    IN  Written(Concat([i \in 1..Len(para.Data) |->
                            VerbatimLineText(para.Data[i], stripAmount, indent)]),
                para.Data # <<>>)


\* IsDifferentLanguage without its second disjunct.
IsDifferentLanguageOneWay(current, next) ==
    current = "GDScript" /\ next = "CSharpCode"

\* IsDifferentLanguage
IsDifferentLanguage(current, next) ==
    \/ (current = "GDScript" /\ next = "CSharpCode")
    \/ (current = "CSharpCode" /\ next = "GDScript")

\* Position of the first non-empty paragraph of paras after position it, or
\* Len(paras) + 1 (the while loop over next in Write).
NextNonEmpty(paras, it) ==
    IF \E n \in (it + 1)..Len(paras) : ~ParagraphEmpty(paras[n])
    THEN CHOOSE n \in (it + 1)..Len(paras) :
            ~ParagraphEmpty(paras[n]) /\ \A m \in (it + 1)..(n - 1) : ParagraphEmpty(paras[m])
    ELSE Len(paras) + 1

\* The [codeblocks] block of two code paragraphs.
WriteCodeBlocks(current, next, indent) ==
    Indent(indent) \o <<"[codeblocks]", "\n">>
      \o Indent(indent) \o <<"[">> \o TypeName(current.Type) \o <<"]", "\n">>
      \o WriteVerbatim(current, indent).text
      \o Indent(indent) \o <<"[/">> \o TypeName(current.Type) \o <<"]", "\n">>
      \o Indent(indent) \o <<"[">> \o TypeName(next.Type) \o <<"]", "\n">>
      \o WriteVerbatim(next, indent).text
      \o Indent(indent) \o <<"[/">> \o TypeName(next.Type) \o <<"]", "\n">>
      \o Indent(indent) \o <<"[/codeblocks]">>

\* The [codeblock lang=...] block of one verbatim or code paragraph.
WriteCodeBlock(para, indent) ==
    Indent(indent) \o <<"[codeblock", " ", "lang=">> \o TypeName(para.Type) \o <<"]", "\n">>
      \o WriteVerbatim(para, indent).text
      \o Indent(indent) \o <<"[/codeblock]">>

RECURSIVE WriteFrom(_, _, _, _, _)
\* The loop of Write from position it on; acc.written is newPara.
WriteFrom(paras, it, indent, prefix, acc) ==
    IF it > Len(paras) THEN acc
    ELSE IF ParagraphEmpty(paras[it]) THEN WriteFrom(paras, it + 1, indent, prefix, acc)
    ELSE LET para == paras[it]
             sep  == acc.text \o (IF acc.written THEN <<"\n">> ELSE <<>>)
             next == NextNonEmpty(paras, it)
             line == WriteSingleLine(para, indent, IF acc.written THEN <<>> ELSE prefix)
         IN  CASE para.Type = "List" ->
                    WriteFrom(paras, it + 1, indent, prefix,
                        Written(sep \o WriteSingleLine(para, indent, Bullet).text, TRUE))
               [] para.Type = "VerbatimText" ->
                    WriteFrom(paras, it + 1, indent, prefix,
                        Written(sep \o WriteCodeBlock(para, indent), TRUE))
               [] para.Type \in {"GDScript", "CSharpCode"} ->
                    IF next <= Len(paras) /\ IsDifferentLanguage(para.Type, paras[next].Type)
                    THEN WriteFrom(paras, next + 1, indent, prefix,
                            Written(sep \o WriteCodeBlocks(para, paras[next], indent), TRUE))
                    ELSE WriteFrom(paras, it + 1, indent, prefix,
                            Written(sep \o WriteCodeBlock(para, indent), TRUE))
               [] OTHER ->
                    WriteFrom(paras, it + 1, indent, prefix,
                        Written(sep \o line.text, line.written \/ acc.written))

\* Write
Write(paras, indent, prefix) == WriteFrom(paras, 1, indent, prefix, Written(<<>>, FALSE))

\* WriteOptionalSection after the text acc.text, with newPara = acc.written
WriteOptionalSection(acc, title, paragraphs, indent) ==
    IF paragraphs # <<>>
    THEN Written(acc.text \o (IF acc.written THEN <<"\n">> ELSE <<>>)
                   \o Write(paragraphs, indent, Title(title)).text,
                 TRUE)
    ELSE acc


RECURSIVE WriteParameterLinesBackwards(_, _)
\* WriteParameterLines from the last entry to the first.
WriteParameterLinesBackwards(params, indent) ==
    IF params = <<>> THEN <<>>
    ELSE WriteParameterLinesBackwards(Tail(params), indent)
           \o <<"\n">>
           \o WriteSingleLine(Head(params).Description, indent, NamePrefix(Head(params).Name)).text

RECURSIVE WriteParameterLines(_, _)
\* The loop over ParameterDescs or ReturnValues of WriteDetailed.
WriteParameterLines(params, indent) ==
    IF params = <<>> THEN <<>>
    ELSE <<"\n">>
           \o WriteSingleLine(Head(params).Description, indent, NamePrefix(Head(params).Name)).text
           \o WriteParameterLines(Tail(params), indent)

\* The Parameters section of WriteDetailed
WriteParameters(acc, rec, indent) ==
    IF rec.ParameterDescs # <<>>
    THEN Written(acc.text \o (IF acc.written THEN <<"\n">> ELSE <<>>)
                   \o Indent(indent) \o Title(<<"Parameters">>)
                   \o WriteParameterLines(rec.ParameterDescs, indent),
                 TRUE)
    ELSE acc

\* The two Return sections of WriteDetailed
WriteReturn(acc, rec, indent) ==
    LET desc == IF ~ParagraphEmpty(rec.ReturnDesc)
                THEN Written(acc.text \o (IF acc.written THEN <<"\n">> ELSE <<>>)
                               \o WriteSingleLine(rec.ReturnDesc, indent, Title(<<"Return">>)).text,
                             TRUE)
                ELSE acc
    IN  IF rec.ReturnValues # <<>>
        THEN Written(desc.text
                       \o (IF ParagraphEmpty(rec.ReturnDesc)
                           THEN <<"\n">> \o Indent(indent) \o Title(<<"Return">>)
                           ELSE <<>>)
                       \o WriteParameterLines(rec.ReturnValues, indent),
                     TRUE)
        ELSE desc

\* WriteDetailed with the Authors section written before Since.
WriteDetailedAuthorsFirst(rec, printBrief, printFunctionInfo, indent) ==
    LET brief    == IF printBrief /\ ~ParagraphEmpty(rec.Brief)
                    THEN Written(WriteSingleLine(rec.Brief, indent, <<>>).text, TRUE)
                    ELSE Written(<<>>, FALSE)
        hasDetail == \E i \in 1..Len(rec.Detailed) : ~ParagraphEmpty(rec.Detailed[i])
        detailed == IF hasDetail
                    THEN Written(brief.text \o (IF brief.written THEN <<"\n">> ELSE <<>>)
                                   \o Write(rec.Detailed, indent, <<>>).text,
                                 TRUE)
                    ELSE brief
        authors  == WriteOptionalSection(detailed, <<"Authors">>, rec.Author, indent)
        since    == WriteOptionalSection(authors, <<"Since">>, rec.Since, indent)
        pre      == WriteOptionalSection(since, <<"Preconditions">>, rec.Preconditions, indent)
        post     == WriteOptionalSection(pre, <<"Postconditions">>, rec.Postconditions, indent)
        params   == WriteParameters(post, rec, indent)
        return   == WriteReturn(params, rec, indent)
        info     == IF printFunctionInfo THEN return ELSE since
        version  == WriteOptionalSection(info, <<"Version">>, rec.Version, indent)
        copy     == WriteOptionalSection(version, <<"Copyright">>, rec.Copyright, indent)
    IN  copy.text

\* WriteDetailed with the brief paragraph written whatever printBrief is.
WriteDetailedAlwaysBrief(rec, printBrief, printFunctionInfo, indent) ==
    LET brief    == IF ~ParagraphEmpty(rec.Brief)
                    THEN Written(WriteSingleLine(rec.Brief, indent, <<>>).text, TRUE)
                    ELSE Written(<<>>, FALSE)
        hasDetail == \E i \in 1..Len(rec.Detailed) : ~ParagraphEmpty(rec.Detailed[i])
        detailed == IF hasDetail
                    THEN Written(brief.text \o (IF brief.written THEN <<"\n">> ELSE <<>>)
                                   \o Write(rec.Detailed, indent, <<>>).text,
                                 TRUE)
                    ELSE brief
        since    == WriteOptionalSection(detailed, <<"Since">>, rec.Since, indent)
        pre      == WriteOptionalSection(since, <<"Preconditions">>, rec.Preconditions, indent)
        post     == WriteOptionalSection(pre, <<"Postconditions">>, rec.Postconditions, indent)
        params   == WriteParameters(post, rec, indent)
        return   == WriteReturn(params, rec, indent)
        info     == IF printFunctionInfo THEN return ELSE since
        authors  == WriteOptionalSection(info, <<"Authors">>, rec.Author, indent)
        version  == WriteOptionalSection(authors, <<"Version">>, rec.Version, indent)
        copy     == WriteOptionalSection(version, <<"Copyright">>, rec.Copyright, indent)
    IN  copy.text

\* ParsedDocumentation::WriteDetailed: the text written
WriteDetailed(rec, printBrief, printFunctionInfo, indent) ==
    LET brief    == IF printBrief /\ ~ParagraphEmpty(rec.Brief)
                    THEN Written(WriteSingleLine(rec.Brief, indent, <<>>).text, TRUE)
                    ELSE Written(<<>>, FALSE)
        hasDetail == \E i \in 1..Len(rec.Detailed) : ~ParagraphEmpty(rec.Detailed[i])
        detailed == IF hasDetail
                    THEN Written(brief.text \o (IF brief.written THEN <<"\n">> ELSE <<>>)
                                   \o Write(rec.Detailed, indent, <<>>).text,
                                 TRUE)
                    ELSE brief
        since    == WriteOptionalSection(detailed, <<"Since">>, rec.Since, indent)
        pre      == WriteOptionalSection(since, <<"Preconditions">>, rec.Preconditions, indent)
        post     == WriteOptionalSection(pre, <<"Postconditions">>, rec.Postconditions, indent)
        params   == WriteParameters(post, rec, indent)
        return   == WriteReturn(params, rec, indent)
        info     == IF printFunctionInfo THEN return ELSE since
        authors  == WriteOptionalSection(info, <<"Authors">>, rec.Author, indent)
        version  == WriteOptionalSection(authors, <<"Version">>, rec.Version, indent)
        copy     == WriteOptionalSection(version, <<"Copyright">>, rec.Copyright, indent)
    IN  copy.text

\* WriteAttributes with the experimental pair first.
WriteAttributesExperimentalFirst(rec) ==
    (IF rec.Experimental.IsTagPresent
     THEN <<" ", "experimental=", "\"">> \o WriteSingleLine(rec.Experimental.Message, 0, <<>>).text
            \o <<"\"">>
     ELSE <<>>)
    \o
    (IF rec.Deprecated.IsTagPresent
     THEN <<" ", "deprecated=", "\"">> \o WriteSingleLine(rec.Deprecated.Message, 0, <<>>).text
            \o <<"\"">>
     ELSE <<>>)

\* ParsedDocumentation::WriteAttributes: the text written
WriteAttributes(rec) ==
    (IF rec.Deprecated.IsTagPresent
     THEN <<" ", "deprecated=", "\"">> \o WriteSingleLine(rec.Deprecated.Message, 0, <<>>).text
            \o <<"\"">>
     ELSE <<>>)
    \o
    (IF rec.Experimental.IsTagPresent
     THEN <<" ", "experimental=", "\"">> \o WriteSingleLine(rec.Experimental.Message, 0, <<>>).text
            \o <<"\"">>
     ELSE <<>>)

\* a caller writes the body of the record (ProcessStartClass, ProcessEndClass)
WriteDetailedCall(printBrief, printFunctionInfo, indent) ==
    /\ pc \in {"built", "absent"}
    /\ pc' = "written"
    /\ call' = [mode |-> "detailed", printBrief |-> printBrief,
                printFunctionInfo |-> printFunctionInfo, indent |-> indent]
    /\ out' = WriteDetailed(record, printBrief, printFunctionInfo, indent)
    /\ UNCHANGED <<className, doc, hasBriefTag, record, visitor>>

RECURSIVE WriteTutorials(_)
\* The loop over doc.Tutorials of ProcessStartClass: the text written
WriteTutorials(tutorials) ==
    IF tutorials = <<>> THEN <<>>
    ELSE LET tutorial == Head(tutorials)
         IN  <<"        <link">>
               \o (IF ~ParagraphEmpty(tutorial.Title)
                   THEN <<" title=", "\"">> \o WriteSingleLine(tutorial.Title, 0, <<>>).text
                          \o <<"\"">>
                   ELSE <<>>)
               \o <<">">> \o EscapeXML(tutorial.URL) \o <<"</link>", "\n">>
               \o WriteTutorials(Tail(tutorials))

\* ProcessStartClass writes the tutorials of the record
WriteTutorialsCall ==
    /\ pc \in {"built", "absent"}
    /\ pc' = "written"
    /\ call' = [NoCall EXCEPT !.mode = "tutorials"]
    /\ out' = WriteTutorials(record.Tutorials)
    /\ UNCHANGED <<className, doc, hasBriefTag, record, visitor>>

\* a caller writes the attributes of the record
WriteAttributesCall ==
    /\ pc \in {"built", "absent"}
    /\ pc' = "written"
    /\ call' = [NoCall EXCEPT !.mode = "attributes"]
    /\ out' = WriteAttributes(record)
    /\ UNCHANGED <<className, doc, hasBriefTag, record, visitor>>

-----------------------------------------------------------------------------
(* Comment trees the specifications draw their nodes from *)

Blank       == <<" ">>
Summary     == <<"S", "u", "m", "m", "a", "r", "y", ".">>
Body        == <<" ", "B", "o", "d", "y", ".">>
NewSummary  == <<" ", "N", "e", "w", " ", "s", "u", "m", "m", "a", "r", "y", ".">>
More        == <<" ", "m", "o", "r", "e">>
GdMarker    == <<"{", ".", "g", "d", "}">>
CsMarker    == <<"{", ".", "c", "s", "}">>
TxtMarker   == <<"{", ".", "t", "x", "t", "}">>
GdLine      == <<" ", " ", "v", "a", "r", " ", "x">>
CsLine      == <<" ", "i", "n", "t", " ", "y", ";">>
TextLine    == <<"a", " ", "<", "b", ">">>

\* A paragraph node with one text child.
TextParagraph(text) == ParagraphComment(<<TextComment(text)>>)

\* A block command as clang builds it: the command and its paragraph.
Block(name, args, text) == BlockCommandComment(name, args, <<TextParagraph(text)>>)

\* The children of a verbatim block with the given line texts.
Lines(texts) == [i \in 1..Len(texts) |-> VerbatimBlockLineComment(texts[i])]

\* Every command name ParseBlock compares against.
KnownCommands ==
    {"author", "authors", "attention", "brief", "bug", "copyright", "deprecated",
     "experimental", "li", "note", "remark", "since", "par", "pre", "pos", "result",
     "return", "returns", "retval", "todo", "tutorial", "version", "warning"}

\* Block commands of clang that ParseBlock does not name.
OtherCommands == {"post", "short", "see", "invariant"}

MaxNodes == 3
MaxBlocks == 2
MaxParams == 3

\* The nodes the tree may hold at the iterator: one of nodes, and none once
\* the loop has passed max nodes.
Remaining(nodes, max) == IF Len(doc) < max THEN nodes ELSE {}

\* Bare paragraphs and brief commands.
BriefNodes ==
    {TextParagraph(t) : t \in {Blank, Summary, Body}}
      \cup {Block("brief", <<>>, t) : t \in {Blank, NewSummary, More}}

NextBrief ==
    \/ \E node \in Remaining(BriefNodes, MaxNodes) : TopLevelParagraph(node)
    \/ \E node \in Remaining(BriefNodes, MaxNodes) : BlockCommand(node)
    \/ EndOfComment

SpecBrief == Init /\ [][NextBrief]_vars

\* Every block command, with and without an argument.
BlockNodes ==
    {Block(name, <<>>, Body) : name \in KnownCommands \cup OtherCommands}
      \cup {Block(name, <<More>>, Body) : name \in {"par", "retval"}}
      \cup {Block("tutorial", <<>>, Blank), TextParagraph(Summary)}

NextBlock ==
    \/ \E node \in Remaining(BlockNodes, MaxBlocks) : TopLevelParagraph(node)
    \/ \E node \in Remaining(BlockNodes, MaxBlocks) : BlockCommand(node)
    \/ EndOfComment

SpecBlock == Init /\ [][NextBlock]_vars

\* Verbatim blocks, verbatim lines and a bare paragraph, then the body written.
VerbatimNodes ==
    {VerbatimBlockComment("code", Lines(texts)) :
        texts \in {<<>>, <<GdMarker, GdLine>>, <<CsMarker, CsLine>>, <<Blank \o GdMarker>>,
                   <<TxtMarker, TextLine>>, <<TextLine, GdMarker>>}}
      \cup {VerbatimBlockComment("verbatim", Lines(texts)) :
                texts \in {<<TextLine>>, <<GdMarker, GdLine>>}}
      \cup {VerbatimLineComment(Blank \o TextLine), TextParagraph(Body)}

Indents == {0, 1}

NextVerbatim ==
    \/ \E node \in Remaining(VerbatimNodes, MaxNodes) : VerbatimBlock(node)
    \/ \E node \in Remaining(VerbatimNodes, MaxNodes) : VerbatimLine(node)
    \/ \E node \in Remaining(VerbatimNodes, MaxNodes) : TopLevelParagraph(node)
    \/ EndOfComment
    \/ \E indent \in Indents : WriteDetailedCall(FALSE, FALSE, indent)

SpecVerbatim == Init /\ [][NextVerbatim]_vars

\* getParamName: the name of the function's parameter at the index.
ParamName(index) == IF index % 2 = 0 THEN <<"x">> ELSE <<"y", "<">>

\* Parameter commands with a valid index, then the body written.
ParamNodes ==
    {ParamCommandComment(FALSE, index, ParamName(index), <<TextParagraph(t)>>) :
        index \in 0..(MaxParams - 1), t \in {Blank, Body}}
      \cup {ParamCommandComment(TRUE, UIntMax - 1, <<".", ".", ".">>, <<TextParagraph(Body)>>),
            TParamCommandComment(<<TextParagraph(Body)>>)}

NextParam ==
    \/ \E node \in Remaining(ParamNodes, MaxParams) : ParamCommand(node)
    \/ \E node \in Remaining(ParamNodes, MaxParams) : OtherComment(node)
    \/ EndOfComment
    \/ \E printFunctionInfo \in BOOLEAN, indent \in Indents :
            WriteDetailedCall(TRUE, printFunctionInfo, indent)

SpecParam == Init /\ [][NextParam]_vars

\* The word before the colon of a reference token: operator, the eight kinds
\* ParseReference names, and one it does not.
RefKinds ==
    ReferenceKinds \cup {<<"o","p","e","r","a","t","o","r">>, <<"c","l","a","s","s">>}

\* The text after the colon: without a period, with one and with two.
RefRests ==
    {<<"jump">>, <<"Color", ".", "r">>, <<"Vector2", ".", "+">>, <<"a", ".", "b", ".", "c">>}

\* The token kind:rest.
RefToken(kind, rest) == kind \o <<":">> \o rest

\* Tokens without a colon.
PlainTokens == {<<"Node">>, <<"Color", ".", "r">>}

\* A since command whose paragraph is one ref command with the token.
RefBlock(token) ==
    BlockCommandComment("since", <<>>,
        <<ParagraphComment(<<InlineCommandComment("ref", <<token>>)>>)>>)

RefNodes ==
    {RefBlock(RefToken(kind, rest)) : kind \in RefKinds, rest \in RefRests}
      \cup {RefBlock(token) : token \in PlainTokens}

MaxRefs == 1

NextRef ==
    \/ \E node \in Remaining(RefNodes, MaxRefs) : BlockCommand(node)
    \/ EndOfComment

SpecRef == Init /\ [][NextRef]_vars

\* The children a paragraph is made of: a text, each inline command the
\* expansion names, two it does not name, and an HTML tag.
InlineItems ==
    {TextComment(<<"t", " ">>), HTMLStartTagComment, InlineCommandComment("n", <<>>),
     InlineCommandComment("emoji", <<<<"x">>>>),
     InlineCommandComment("anchor", <<<<"x">>, <<"y">>, <<"z">>>>)}
      \cup {InlineCommandComment(cmd, <<<<"x">>>>) : cmd \in {"a", "b", "c", "e", "em", "p"}}

MaxInline == 2

\* The sequences of at least one and at most n of the items.
SeqsUpTo(items, n) == UNION {[1..k -> items] : k \in 1..n}

\* A since command whose paragraph has the children.
InlineBlock(children) ==
    BlockCommandComment("since", <<>>, <<ParagraphComment(children)>>)

InlineNodes == {InlineBlock(children) : children \in SeqsUpTo(InlineItems, MaxInline)}

\* The nodes of a comment of one node.
OnlyNode(nodes) == IF doc = <<>> THEN nodes ELSE {}

NextInline ==
    \/ \E node \in OnlyNode(InlineNodes) : BlockCommand(node)
    \/ EndOfComment

SpecInline == Init /\ [][NextInline]_vars

\* A text with each of the five characters the escaper replaces.
Quoted == <<"\"", "<", "a", ">", "&", "'", "b", "'", "\"">>

\* Comment text with those characters in every place the renderer writes text from.
EscapeNodes ==
    {TextParagraph(Quoted), TextParagraph(Body),
     Block("since", <<>>, Quoted), Block("deprecated", <<>>, Quoted),
     Block("par", <<Quoted>>, Body), Block("retval", <<Quoted>>, Quoted),
     Block("tutorial", <<>>, Blank \o Quoted \o Blank \o Quoted),
     VerbatimBlockComment("verbatim", Lines(<<Quoted>>)),
     ParamCommandComment(FALSE, 0, ParamName(1), <<TextParagraph(Quoted)>>)}

NextEscape ==
    \/ \E node \in Remaining(EscapeNodes, MaxBlocks) : TopLevelParagraph(node)
    \/ \E node \in Remaining(EscapeNodes, MaxBlocks) : BlockCommand(node)
    \/ \E node \in Remaining(EscapeNodes, MaxBlocks) : VerbatimBlock(node)
    \/ \E node \in Remaining(EscapeNodes, MaxBlocks) : ParamCommand(node)
    \/ EndOfComment
    \/ \E indent \in Indents : WriteDetailedCall(TRUE, TRUE, indent)
    \/ WriteAttributesCall
    \/ WriteTutorialsCall

SpecEscape == Init /\ [][NextEscape]_vars

\* Status commands with and without a message, among other nodes, or no
\* comment at all; then the attributes written.
AttributeNodes ==
    {Block("deprecated", <<>>, t) : t \in {Blank, Body, Quoted}}
      \cup {Block("experimental", <<>>, t) : t \in {Blank, More}}
      \cup {Block("since", <<>>, Body), TextParagraph(Summary)}

NextAttribute ==
    \/ \E node \in Remaining(AttributeNodes, MaxNodes) : BlockCommand(node)
    \/ \E node \in Remaining(AttributeNodes, MaxNodes) : TopLevelParagraph(node)
    \/ AbsentComment
    \/ EndOfComment
    \/ WriteAttributesCall

SpecAttribute == Init /\ [][NextAttribute]_vars

\* One node for each section of the body, each with a text of its own, in
\* an order that is not the order of the sections.
SectionNodes ==
    <<Block("copyright", <<>>, <<" ", "c">>), Block("version", <<>>, <<" ", "v">>),
      Block("author", <<>>, <<" ", "a">>), Block("retval", <<<<"r">>>>, <<" ", "rv">>),
      Block("return", <<>>, <<" ", "rd">>),
      ParamCommandComment(FALSE, 0, ParamName(0), <<TextParagraph(<<" ", "pd">>)>>),
      Block("pos", <<>>, <<" ", "po">>), Block("pre", <<>>, <<" ", "pr">>),
      Block("since", <<>>, <<" ", "s">>), TextParagraph(<<"p1">>), TextParagraph(<<"p2">>)>>

\* The nodes that may follow the nodes d: those after the last of d in SectionNodes.
After(d) ==
    {SectionNodes[k] : k \in {j \in 1..Len(SectionNodes) :
        d = <<>> \/ \E h \in 1..(j - 1) : SectionNodes[h] = d[Len(d)]}}

NextSection ==
    \/ \E node \in After(doc) : BlockCommand(node)
    \/ \E node \in After(doc) : ParamCommand(node)
    \/ \E node \in After(doc) : TopLevelParagraph(node)
    \/ EndOfComment
    \/ \E printBrief \in BOOLEAN, printFunctionInfo \in BOOLEAN :
            WriteDetailedCall(printBrief, printFunctionInfo, 0)

SpecSection == Init /\ [][NextSection]_vars

\* The texts of the lines of a paragraph: blank, a word, a word in blanks.
SpanTexts == {Blank, <<"w">>, <<" ", "v", " ">>}

MaxSpans == 3

\* A param command for the first parameter whose paragraph has the texts.
FlattenNode(texts) ==
    ParamCommandComment(FALSE, 0, ParamName(0),
        <<ParagraphComment([k \in 1..Len(texts) |-> TextComment(texts[k])])>>)

FlattenNodes == {FlattenNode(texts) : texts \in SeqsUpTo(SpanTexts, MaxSpans)}

NextFlatten ==
    \/ \E node \in OnlyNode(FlattenNodes) : ParamCommand(node)
    \/ EndOfComment
    \/ \E indent \in Indents : WriteDetailedCall(TRUE, TRUE, indent)

SpecFlatten == Init /\ [][NextFlatten]_vars

\* The commands of the six optional sections, with and without text, and a
\* bare paragraph.
OptionalNodes ==
    {Block(name, <<>>, t) :
        name \in {"since", "pre", "pos", "author", "version", "copyright"}, t \in {Blank, Body}}
      \cup {TextParagraph(Summary)}

NextOptional ==
    \/ \E node \in Remaining(OptionalNodes, MaxBlocks) : BlockCommand(node)
    \/ \E node \in Remaining(OptionalNodes, MaxBlocks) : TopLevelParagraph(node)
    \/ EndOfComment
    \/ \E printFunctionInfo \in BOOLEAN, indent \in Indents :
            WriteDetailedCall(TRUE, printFunctionInfo, indent)

SpecOptional == Init /\ [][NextOptional]_vars

\* The lines of a verbatim block: indented by one and by two, of white space
\* only, and with no character at all.
StripLines == {<<" ", "f">>, <<" ", " ", "b", " ">>, <<" ", " ", " ">>, <<>>}

MaxLines == 3

StripNodes ==
    {VerbatimBlockComment("verbatim", Lines(texts)) : texts \in SeqsUpTo(StripLines, MaxLines)}

NextStrip ==
    \/ \E node \in OnlyNode(StripNodes) : VerbatimBlock(node)
    \/ EndOfComment
    \/ \E indent \in Indents : WriteDetailedCall(FALSE, FALSE, indent)

SpecStrip == Init /\ [][NextStrip]_vars

\* The lines of the paragraph of a tutorial command: blank, a URL, and a
\* URL with a title in white space.
TutorialTexts == {Blank, <<"u">>, <<" ", "u", " ", " ", "t", " ">>}

\* A tutorial command whose paragraph has the texts.
TutorialNode(texts) ==
    BlockCommandComment("tutorial", <<>>,
        <<ParagraphComment([k \in 1..Len(texts) |-> TextComment(texts[k])])>>)

\* Tutorial commands of one and of two lines, and a since command.
TutorialNodes ==
    {TutorialNode(<<t>>) : t \in TutorialTexts}
      \cup {TutorialNode(<<t, u>>) : t \in TutorialTexts, u \in TutorialTexts}
      \cup {Block("since", <<>>, Body)}

NextTutorial ==
    \/ \E node \in Remaining(TutorialNodes, MaxBlocks) : BlockCommand(node)
    \/ EndOfComment

SpecTutorial == Init /\ [][NextTutorial]_vars

\* The span lists of the operands of operator+=(Paragraph&, Paragraph&&).
AppendSpans == SeqsUpTo({<<"a">>, <<" ", "b">>}, MaxInline)

\* Paragraphs of every kind.
AppendOperands == {[Data |-> data, Type |-> type] : data \in AppendSpans, type \in ParagraphType}

\* para += std::move(text) on two paragraphs
AppendParagraphCall(para, text) ==
    /\ pc = "parse"
    /\ doc = <<>>
    /\ pc' = "appended"
    /\ call' = [mode |-> "append", para |-> para, text |-> text]
    /\ out' = AppendParagraph(para, text)
    /\ UNCHANGED <<className, doc, hasBriefTag, record, visitor>>

NextAppend ==
    /\ pc = "parse"
    /\ \E para \in AppendOperands, text \in AppendOperands : AppendParagraphCall(para, text)

SpecAppend == Init /\ [][NextAppend]_vars

-----------------------------------------------------------------------------
(* The visitor: ExtractInterfaceVisitor's traversal and ExtractDocVisitor's *)
(* collections.  Names are sequences of atoms.  A declaration carries what  *)
(* the visitor reads of it: its name, its annotation and its doc comment;   *)
(* methods have no parameter, return nothing and are neither static, const  *)
(* nor virtual, and the output folder can be written to.                    *)

\* getLocalCommentForDeclUncached: no comment, or the tree of a comment.
NoComment == [present |-> FALSE, nodes |-> <<>>]

FullComment(nodes) == [present |-> TRUE, nodes |-> nodes]

\* One pass of the constructor's loop over a top-level node.  A parameter
\* command whose index is past the list leaves the resized list (the write
\* outside the list is the subject of ParamCommand).
ConstructorStep(state, node, owner) ==
    LET rec == state.record
    IN  CASE node.kind = "BlockCommandComment" ->
                ParseBlock(rec, state.hasBriefTag, node, owner)
          [] node.kind = "ParagraphComment" ->
                [state EXCEPT !.record =
                    IF ~state.hasBriefTag /\ ParagraphEmpty(rec.Brief)
                    THEN [rec EXCEPT !.Brief = ParseComments(node, owner)]
                    ELSE [rec EXCEPT !.Detailed =
                             AppendToParagraphs(@, ParseComments(node, owner))]]
          [] node.kind = "VerbatimBlockComment" ->
                [state EXCEPT !.record =
                    [rec EXCEPT !.Detailed = ParseVerbatim(@, node.name, node)]]
          [] node.kind = "VerbatimLineComment" ->
                [state EXCEPT !.record =
                    [rec EXCEPT !.Detailed =
                        Append(@, AppendText(Paragraph("VerbatimText"), trim(node.text)))]]
          [] node.kind = "ParamCommandComment" ->
                IF node.isVarArg THEN state
                ELSE LET idx     == node.index
                         resized == IF Len(rec.ParameterDescs) <= idx
                                    THEN Resize(rec.ParameterDescs, UIntSucc(idx))
                                    ELSE rec.ParameterDescs
                     IN  [state EXCEPT !.record =
                            [rec EXCEPT !.ParameterDescs =
                                IF idx < Len(resized)
                                THEN [resized EXCEPT ![idx + 1] =
                                        Parameters(node.paramName, ParseComments(node, owner))]
                                ELSE resized]]
          [] OTHER -> state

RECURSIVE ConstructorLoop(_, _, _)
\* The constructor's loop over the top-level nodes of a comment.
ConstructorLoop(state, nodes, owner) ==
    IF nodes = <<>> THEN state
    ELSE ConstructorLoop(ConstructorStep(state, Head(nodes), owner), Tail(nodes), owner)

\* ParsedDocumentation{className, doc, traits}; flag is the value the local
\* hasBriefTag holds before the loop writes it.
ParsedDocumentation(owner, comment, flag) ==
    IF comment.present
    THEN ConstructorLoop([record |-> EmptyDocumentation, hasBriefTag |-> flag],
                         comment.nodes, owner).record
    ELSE EmptyDocumentation

\* The records a constructor call can build: one for each value the
\* uninitialised flag can hold.
Constructed(owner, comment) ==
    {ParsedDocumentation(owner, comment, flag) : flag \in BOOLEAN}

RECURSIVE ConstructedEach(_, _)
\* The records the constructor calls for the constants of an enum can build.
ConstructedEach(owner, enumerators) ==
    IF enumerators = <<>> THEN {<<>>}
    ELSE {<<parsed>> \o rest : parsed \in Constructed(owner, Head(enumerators).comment),
                               rest \in ConstructedEach(owner, Tail(enumerators))}

\* map[key] = value
Put(map, key, value) ==
    [k \in DOMAIN map \cup {key} |-> IF k = key THEN value ELSE map[k]]

\* unordered_map::try_emplace: an entry under the key stays as it is
try_emplace(map, key, value) ==
    IF key \in DOMAIN map THEN map ELSE Put(map, key, value)

\* unordered_map::operator[]: the entry, default-constructed when there is none
Entry(map, key, default) == IF key \in DOMAIN map THEN map[key] ELSE default

RECURSIVE Iteration(_)
\* The keys of a map in the order a range-for passes them.
Iteration(keys) ==
    IF keys = {} THEN <<>>
    ELSE LET key == CHOOSE k \in keys : TRUE IN <<key>> \o Iteration(keys \ {key})

\* A default-constructed Property, and a default-constructed PropertyDoc
\* (the optional Documentation is a sequence of at most one record).
Property == [Getter |-> <<>>, Setter |-> <<>>]

PropertyDoc == [Documentation |-> <<>>, Property |-> Property]

\* What a base Process* method writes to the bindings stream.
Binding(bind, name) == [bind |-> bind, name |-> name]

\* ExtractDocVisitor::ProcessStartClass; parsed is the record built from the
\* comment of the class, from which the attributes, the brief description,
\* the description and the tutorials of the document are written.
ProcessStartClass(v, name, parsed) ==
    [v EXCEPT !.classes   = Append(@, name),
              !.bindings  = Append(@, Binding("_bind_methods", v.currentClass)),
              !.file      = TRUE,
              !.documents = Append(@,
                  [ name          |-> name,
                    documentation |-> parsed,
                    closed        |-> FALSE,
                    methods       |-> {},
                    members       |-> {},
                    signals       |-> {},
                    constants     |-> {} ])]

\* ExtractDocVisitor::ProcessProperty for every property of WriteProperties
ProcessProperties(properties, baseProperties) ==
    [k \in DOMAIN properties \cup DOMAIN baseProperties |->
        IF k \in DOMAIN baseProperties
        THEN [Entry(properties, k, PropertyDoc) EXCEPT !.Property = baseProperties[k]]
        ELSE properties[k]]

\* ExtractInterfaceVisitor::WriteProperties
WriteProperties(v) ==
    LET names == Iteration(DOMAIN v.baseProperties)
    IN  [v EXCEPT !.bindings = @ \o [i \in 1..Len(names) |-> Binding("ADD_PROPERTY", names[i])],
                  !.properties = ProcessProperties(@, v.baseProperties),
                  !.baseProperties = EmptyMap]

\* The elements ProcessEndClass writes for the entries of a collection: one
\* for each entry, with its name and what WriteAttributes and WriteDetailed
\* write from its record.
Elements(map) == {[name |-> k, documentation |-> map[k]] : k \in DOMAIN map}

\* The member elements ProcessEndClass writes; the documentation is written
\* when the optional holds a record.
Members(properties) ==
    {[name          |-> k,
      setter        |-> properties[k].Property.Setter,
      getter        |-> properties[k].Property.Getter,
      documentation |-> properties[k].Documentation] : k \in DOMAIN properties}

\* ExtractDocVisitor::ProcessEndClass
ProcessEndClass(v, name) ==
    LET written == WriteProperties(v)
        base    == [written EXCEPT !.bindings = Append(@, Binding("}", name)),
                                   !.baseSignals = <<>>]
        last    == Len(base.documents)
    IN  IF base.file
        THEN [base EXCEPT !.documents[last] =
                      [@ EXCEPT !.closed    = TRUE,
                                !.methods   = Elements(base.methods),
                                !.members   = Members(base.properties),
                                !.signals   = Elements(base.signals),
                                !.constants = Elements(base.constants)],
                  !.file = FALSE]
        ELSE base

\* ExtractDocVisitor::ProcessPropertyFunc with the test of isSetter and of
\* the stored documentation left out
ProcessPropertyFuncLast(v, propertyName, declaration, function, isSetter, parsed) ==
    LET bound   == [v EXCEPT !.bindings = Append(@, Binding("bind_method", function))]
        propDoc == Entry(v.properties, propertyName, PropertyDoc)
        comment == declaration.comment
    IN  [bound EXCEPT !.properties = Put(@, propertyName,
            IF comment.present
            THEN [propDoc EXCEPT !.Documentation =
                     <<parsed>>]
            ELSE propDoc)]

\* ExtractDocVisitor::ProcessPropertyFunc; parsed is the record the
\* constructor builds from the comment of the declaration
ProcessPropertyFunc(v, propertyName, declaration, function, isSetter, parsed) ==
    LET bound   == [v EXCEPT !.bindings = Append(@, Binding("bind_method", function))]
        propDoc == Entry(v.properties, propertyName, PropertyDoc)
        comment == declaration.comment
    IN  [bound EXCEPT !.properties = Put(@, propertyName,
            IF (~isSetter \/ propDoc.Documentation = <<>>) /\ comment.present
            THEN [propDoc EXCEPT !.Documentation =
                     <<parsed>>]
            ELSE propDoc)]

\* ExtractDocVisitor::ProcessSignal
ProcessSignal(v, name, parsed) ==
    [v EXCEPT !.baseSignals = Append(@, name),
              !.bindings    = Append(@, Binding("ADD_SIGNAL", name)),
              !.signals     = try_emplace(@, name, parsed)]

\* ExtractDocVisitor::ProcessMethod of a method that is no accessor
ProcessMethod(v, name, parsed) ==
    [v EXCEPT !.bindings = Append(@, Binding("bind_method", name)),
              !.methods  = try_emplace(@, name, parsed)]

RECURSIVE ProcessConstants(_, _, _, _)
\* VisitEnumConstantDecl and ExtractDocVisitor::ProcessConstant for the
\* constants of an enum, in their order; parsed are the records built from
\* their comments
ProcessConstants(v, type, enumerators, parsed) ==
    IF enumerators = <<>> \/ type = "None" THEN v
    ELSE LET declaration == Head(enumerators)
             bind == CASE type = "Enum"     -> "BIND_ENUM_CONSTANT"
                       [] type = "Bitfield" -> "BIND_BITFIELD_FLAG"
                       [] OTHER             -> "BIND_CONSTANT"
         IN  ProcessConstants(
                 [v EXCEPT !.bindings  = Append(@, Binding(bind, declaration.name)),
                           !.constants = try_emplace(@, declaration.name, Head(parsed))],
                 type, Tail(enumerators), Tail(parsed))

\* The traversal is under way, or can begin: no comment is being parsed.
Traversing == pc = "traverse" \/ (pc = "parse" /\ doc = <<>>)

\* TraverseCXXRecordDecl down to the traversal of the members of the record
TraverseCXXRecordDecl(declaration) ==
    /\ Traversing
    /\ declaration.kind = "CXXRecordDecl"
    /\ LET start == declaration.exported /\ visitor.currentClass = <<>>
           entered == [visitor EXCEPT
                          !.inClass = start,
                          !.currentClass = IF start THEN declaration.name ELSE @,
                          !.frames = Append(@, [declaration |-> declaration, popClass |-> start]),
                          !.decls = Append(@, declaration)]
       IN  IF start
           THEN \E parsed \in Constructed(declaration.name, declaration.comment) :
                    visitor' = ProcessStartClass(entered, declaration.name, parsed)
           ELSE visitor' = entered
    /\ pc' = "traverse"
    /\ UNCHANGED <<className, doc, hasBriefTag, record, call, out>>

\* TraverseCXXRecordDecl after the traversal of the members of the record
EndOfRecord ==
    /\ pc = "traverse"
    /\ visitor.frames # <<>>
    /\ LET frame == visitor.frames[Len(visitor.frames)]
           left  == [visitor EXCEPT !.frames = SubSeq(@, 1, Len(@) - 1)]
       IN  visitor' = IF frame.popClass
                      THEN [ProcessEndClass(left, frame.declaration.name) EXCEPT
                               !.inClass = FALSE, !.currentClass = <<>>]
                      ELSE left
    /\ UNCHANGED <<className, pc, doc, hasBriefTag, record, call, out>>

\* VisitCXXMethodDecl of a method of the record being traversed
VisitCXXMethodDecl(declaration) ==
    /\ pc = "traverse"
    /\ visitor.frames # <<>>
    /\ declaration.kind = "CXXMethodDecl"
    /\ LET passed == [visitor EXCEPT !.decls = Append(@, declaration)]
           name   == declaration.name
           annotation == declaration.annotation
           accessor(field) ==
               [passed EXCEPT !.baseProperties = Put(@, declaration.property,
                   [Entry(@, declaration.property, Property) EXCEPT ![field] = name])]
       IN  IF passed.currentClass # <<>> /\ passed.inClass
           THEN \E parsed \in Constructed(passed.currentClass, declaration.comment) :
                    visitor' =
                        CASE annotation = "godot::signal" ->
                                ProcessSignal(passed, name, parsed)
                          [] annotation = "godot::getter" ->
                                ProcessPropertyFunc(accessor("Getter"), declaration.property,
                                                    declaration, name, FALSE, parsed)
                          [] annotation = "godot::setter" ->
                                ProcessPropertyFunc(accessor("Setter"), declaration.property,
                                                    declaration, name, TRUE, parsed)
                          [] annotation = "godot::method" ->
                                ProcessMethod(passed, name, parsed)
                          [] OTHER -> passed
           ELSE visitor' = passed
    /\ UNCHANGED <<className, pc, doc, hasBriefTag, record, call, out>>

\* The ConstantType of the annotation of an enum.
EnumType(annotation) ==
    CASE annotation = "godot::enum"      -> "Enum"
      [] annotation = "godot::bitfield"  -> "Bitfield"
      [] annotation = "godot::constants" -> "Constants"
      [] OTHER                           -> "None"

\* TraverseEnumDecl, with VisitEnumConstantDecl for each of its constants
TraverseEnumDecl(declaration) ==
    /\ pc = "traverse"
    /\ declaration.kind = "EnumDecl"
    /\ LET passed == [visitor EXCEPT !.decls = Append(@, declaration)]
       IN  IF passed.currentClass # <<>> /\ passed.inClass
           THEN \E parsed \in ConstructedEach(passed.currentClass, declaration.enumerators) :
                        visitor' = [ProcessConstants(
                                        [passed EXCEPT !.inEnum = EnumType(declaration.annotation)],
                                        EnumType(declaration.annotation),
                                        declaration.enumerators, parsed)
                                    EXCEPT !.inEnum = "None"]
           ELSE visitor' = passed
    /\ UNCHANGED <<className, pc, doc, hasBriefTag, record, call, out>>

\* Declarations as the traversal meets them.
CXXRecordDecl(name, exported, comment) ==
    [kind |-> "CXXRecordDecl", name |-> name, exported |-> exported, comment |-> comment]

CXXMethodDecl(name, annotation, property, comment) ==
    [kind |-> "CXXMethodDecl", name |-> name, annotation |-> annotation,
     property |-> property, comment |-> comment]

EnumConstantDecl(name, comment) == [name |-> name, comment |-> comment]

EnumDecl(name, annotation, enumerators) ==
    [kind |-> "EnumDecl", name |-> name, annotation |-> annotation, enumerators |-> enumerators]

\* A comment of one brief command with the text.
BriefComment(text) == FullComment(<<Block("brief", <<>>, text)>>)

\* The translation unit has at most this many declarations.
MaxDecls == 5

\* The declarations that can come next.
Declared(decls) == IF Len(visitor.decls) < MaxDecls THEN decls ELSE {}

\* The declarations that can come first.
FirstDeclared(decls) == IF visitor.decls = <<>> THEN decls ELSE {}

\* The getter and the setter of a property, each with and without a comment.
Accessors ==
    {CXXMethodDecl(<<"g", "e", "t">>, "godot::getter", <<"p">>, comment) :
        comment \in {NoComment, BriefComment(<<"G", ".">>)}}
      \cup {CXXMethodDecl(<<"s", "e", "t">>, "godot::setter", <<"p">>, comment) :
        comment \in {NoComment, BriefComment(<<"S", ".">>)}}

\* One exported class with accessors of one property.
NextProperty ==
    \/ \E declaration \in FirstDeclared({CXXRecordDecl(<<"A">>, TRUE, NoComment)}) :
            TraverseCXXRecordDecl(declaration)
    \/ \E declaration \in Declared(Accessors) : VisitCXXMethodDecl(declaration)
    \/ EndOfRecord

SpecProperty == Init /\ [][NextProperty]_vars

\* The members of an exported class: a method with a comment, a signal, a
\* getter with a comment, and an enum of one constant.
ClassMembers ==
    {CXXMethodDecl(<<"f">>, "godot::method", <<>>, BriefComment(<<"F", ".">>)),
     CXXMethodDecl(<<"s">>, "godot::signal", <<>>, NoComment),
     CXXMethodDecl(<<"g", "e", "t">>, "godot::getter", <<"p">>, BriefComment(<<"G", ".">>)),
     EnumDecl(<<"E">>, "godot::enum", <<EnumConstantDecl(<<"c">>, NoComment)>>)}

\* The exported classes of the translation unit that have not been declared.
NewClasses ==
    {declaration \in {CXXRecordDecl(name, TRUE, NoComment) : name \in {<<"A">>, <<"B">>}} :
        /\ visitor.frames = <<>>
        /\ \A i \in 1..Len(visitor.decls) : visitor.decls[i] # declaration}

\* Exported classes one after the other, each with some of the members.
NextClasses ==
    \/ \E declaration \in Declared(NewClasses) : TraverseCXXRecordDecl(declaration)
    \/ \E declaration \in Declared(ClassMembers) : VisitCXXMethodDecl(declaration)
    \/ \E declaration \in Declared(ClassMembers) :
            visitor.frames # <<>> /\ TraverseEnumDecl(declaration)
    \/ EndOfRecord

SpecClasses == Init /\ [][NextClasses]_vars

\* A comment with a command for every member the body is claimed not to
\* depend on, in this order, and a paragraph of the description.
IndependentNodes ==
    <<Block("retval", <<<<"r">>>>, <<" ", "rv">>), Block("return", <<>>, <<" ", "rd">>),
      Block("pre", <<>>, <<" ", "pr">>), TextParagraph(<<"p1">>),
      Block("brief", <<>>, <<" ", "b">>), Block("deprecated", <<>>, <<" ", "d">>),
      Block("tutorial", <<>>, <<"u", " ", "t">>)>>

\* The nodes of a list that may follow the nodes d: those after the last of d.
Following(nodes, d) ==
    {nodes[k] : k \in {j \in 1..Len(nodes) :
        d = <<>> \/ \E h \in 1..(j - 1) : nodes[h] = d[Len(d)]}}

NextIndependent ==
    \/ \E node \in Following(IndependentNodes, doc) : BlockCommand(node)
    \/ \E node \in Following(IndependentNodes, doc) : TopLevelParagraph(node)
    \/ EndOfComment
    \/ \E printBrief \in BOOLEAN, printFunctionInfo \in BOOLEAN, indent \in Indents :
            WriteDetailedCall(printBrief, printFunctionInfo, indent)

SpecIndependent == Init /\ [][NextIndependent]_vars

\* A note command, and a par command with a title, whose paragraph has the texts.
LabelNodes ==
    {BlockCommandComment(name, IF name = "par" THEN <<More>> ELSE <<>>,
        <<ParagraphComment([k \in 1..Len(texts) |-> TextComment(texts[k])])>>) :
        name \in {"note", "par"}, texts \in SeqsUpTo(SpanTexts, MaxSpans)}

NextLabel ==
    \/ \E node \in OnlyNode(LabelNodes) : BlockCommand(node)
    \/ EndOfComment
    \/ \E indent \in Indents : WriteDetailedCall(FALSE, FALSE, indent)

SpecLabel == Init /\ [][NextLabel]_vars

\* Bare paragraphs, a brief command, commands kept in the description, a
\* command kept elsewhere, a verbatim block and a verbatim line.
OrderNodes ==
    {TextParagraph(Summary), TextParagraph(Body), Block("brief", <<>>, NewSummary),
     Block("note", <<>>, Body), Block("li", <<>>, More), Block("post", <<>>, Body),
     Block("since", <<>>, Body),
     VerbatimBlockComment("code", Lines(<<GdMarker, GdLine>>)),
     VerbatimLineComment(TextLine)}

NextOrder ==
    \/ \E node \in Remaining(OrderNodes, MaxNodes) : BlockCommand(node)
    \/ \E node \in Remaining(OrderNodes, MaxNodes) : TopLevelParagraph(node)
    \/ \E node \in Remaining(OrderNodes, MaxNodes) : VerbatimBlock(node)
    \/ \E node \in Remaining(OrderNodes, MaxNodes) : VerbatimLine(node)
    \/ EndOfComment

SpecOrder == Init /\ [][NextOrder]_vars

\* An exported class, and a record nested in it that is not exported.
OuterClass == CXXRecordDecl(<<"A">>, TRUE, NoComment)

NestedRecord == CXXRecordDecl(<<"N">>, FALSE, NoComment)

\* The records that can be declared next: the exported class first, the
\* nested record inside it.
NextRecords ==
    IF visitor.decls = <<>> THEN {OuterClass}
    ELSE IF Len(visitor.frames) = 1 THEN {NestedRecord}
    ELSE {}

\* An annotated method and an annotated enum.
NestedMembers ==
    {CXXMethodDecl(<<"f">>, "godot::method", <<>>, NoComment),
     EnumDecl(<<"E">>, "godot::enum", <<EnumConstantDecl(<<"c">>, NoComment)>>)}

\* One exported class with methods, enums and nested records in any order.
NextNested ==
    \/ \E declaration \in Declared(NextRecords) : TraverseCXXRecordDecl(declaration)
    \/ \E declaration \in Declared(NestedMembers) : VisitCXXMethodDecl(declaration)
    \/ \E declaration \in Declared(NestedMembers) :
            visitor.frames # <<>> /\ TraverseEnumDecl(declaration)
    \/ EndOfRecord

SpecNested == Init /\ [][NextNested]_vars

\* Parameter commands with a valid index, and with the index clang gives a
\* name that is no parameter of the function (InvalidParamIndex, ~0U).
WrapNodes ==
    {ParamCommandComment(FALSE, index, ParamName(index), <<TextParagraph(t)>>) :
        index \in {0, 1, UIntMax}, t \in {Blank, Body}}

NextWrap ==
    \/ \E node \in Remaining(WrapNodes, MaxParams) : ParamCommand(node)
    \/ EndOfComment

SpecWrap == Init /\ [][NextWrap]_vars

\* One node for every field of the record that holds a paragraph, the brief
\* and the return command twice over, and the nodes whose paragraph is not
\* of the Normal kind: a list item, a code block, a verbatim line.
KindNodes ==
    {TextParagraph(Summary), Block("brief", <<>>, NewSummary), Block("brief", <<>>, More),
     Block("li", <<>>, More), Block("return", <<>>, Body), Block("returns", <<>>, More),
     Block("retval", <<<<"r">>>>, Body), Block("deprecated", <<>>, Body),
     Block("experimental", <<>>, More), Block("tutorial", <<>>, <<" ", "u", " ", "t">>),
     ParamCommandComment(FALSE, 0, ParamName(0), <<TextParagraph(Body)>>),
     VerbatimBlockComment("code", Lines(<<GdMarker, GdLine>>)),
     VerbatimLineComment(TextLine)}

NextKinds ==
    \/ \E node \in Remaining(KindNodes, MaxNodes) : BlockCommand(node)
    \/ \E node \in Remaining(KindNodes, MaxNodes) : TopLevelParagraph(node)
    \/ \E node \in Remaining(KindNodes, MaxNodes) : ParamCommand(node)
    \/ \E node \in Remaining(KindNodes, MaxNodes) : VerbatimBlock(node)
    \/ \E node \in Remaining(KindNodes, MaxNodes) : VerbatimLine(node)
    \/ EndOfComment

SpecKinds == Init /\ [][NextKinds]_vars

\* Every operation on every node above.
Next ==
    \/ \E node \in Remaining(BriefNodes \cup BlockNodes, MaxBlocks) : BlockCommand(node)
    \/ \E node \in Remaining(BriefNodes, MaxBlocks) : TopLevelParagraph(node)
    \/ \E node \in Remaining(VerbatimNodes, MaxBlocks) : VerbatimBlock(node)
    \/ \E node \in Remaining(VerbatimNodes, MaxBlocks) : VerbatimLine(node)
    \/ \E node \in Remaining(ParamNodes, MaxBlocks) : ParamCommand(node)
    \/ \E node \in Remaining(ParamNodes, MaxBlocks) : OtherComment(node)
    \/ AbsentComment
    \/ EndOfComment
    \/ \E printBrief \in BOOLEAN, printFunctionInfo \in BOOLEAN, indent \in Indents :
            WriteDetailedCall(printBrief, printFunctionInfo, indent)
    \/ WriteAttributesCall

Spec == Init /\ [][Next]_vars

-----------------------------------------------------------------------------
(* Properties *)

\* The loop has just passed one more top-level node.
Passed == Len(doc') = Len(doc) + 1

\* A brief block command.
IsBrief(node) == node.kind = "BlockCommandComment" /\ node.name = "brief"

\* A top-level bare paragraph whose text is not blank.
IsTextParagraph(node) ==
    node.kind = "ParagraphComment" /\ ~ParagraphEmpty(ParseComments(node, className))

\* No brief block command among the nodes d.
NoBrief(d) == \A i \in 1..Len(d) : ~IsBrief(d[i])

\* A Normal paragraph holding exactly the spans data.
NormalParagraph(data) == [Data |-> data, Type |-> "Normal"]

\* text holds sub as a run of consecutive atoms.
Contains(text, sub) ==
    \E i \in 0..(Len(text) - Len(sub)) : SubSeq(text, i + 1, i + Len(sub)) = sub

\* How many atoms of text are the atom a.
Count(text, a) == Cardinality({i \in 1..Len(text) : text[i] = a})

\* C1: while no brief command has been passed, the first bare paragraph with
\* text becomes Brief and is not added to Detailed, and every bare paragraph
\* after it is appended to Detailed, on every run of the constructor.
C1_ImplicitBrief ==
    [][(Passed /\ doc'[Len(doc')].kind = "ParagraphComment" /\ NoBrief(doc)) =>
          LET para == ParseComments(doc'[Len(doc')], className)
          IN  IF \E i \in 1..Len(doc) : IsTextParagraph(doc[i])
              THEN record' = [record EXCEPT !.Detailed = Append(@, para)]
              ELSE ~ParagraphEmpty(para) => record' = [record EXCEPT !.Brief = para]]_vars

\* C2: a brief command passed while Brief has text and no brief command was
\* passed before puts the old Brief first in Detailed, ahead of every
\* paragraph already there, makes its own paragraph the Brief and sets the flag.
C2_BriefDemotion ==
    [][(Passed /\ IsBrief(doc'[Len(doc')]) /\ ~ParagraphEmpty(record.Brief) /\ NoBrief(doc)) =>
          /\ record' = [record EXCEPT
                            !.Detailed = <<record.Brief>> \o @,
                            !.Brief = ParseComments(doc'[Len(doc')], className)]
          /\ hasBriefTag']_vars

\* Reached by 'Summary.', ' Body.', then brief ' New summary.': the two bare
\* paragraphs are Detailed in that order under the new Brief.
C2_Witness ==
    /\ doc = <<TextParagraph(Summary), TextParagraph(Body), Block("brief", <<>>, NewSummary)>>
    /\ record.Brief = NormalParagraph(<<NewSummary>>)
    /\ record.Detailed = <<NormalParagraph(<<Summary>>), NormalParagraph(<<Body>>)>>
    /\ hasBriefTag

\* C3: a brief command passed after another brief command appends its spans
\* to a Brief that has text and replaces a Brief that has none; nothing else
\* of the record changes.
C3_RepeatedBrief ==
    [][(Passed /\ IsBrief(doc'[Len(doc')]) /\ ~NoBrief(doc)) =>
          LET para == ParseComments(doc'[Len(doc')], className)
          IN  IF ~ParagraphEmpty(record.Brief)
              THEN record' = [record EXCEPT !.Brief.Data = @ \o para.Data]
              ELSE record' = [record EXCEPT !.Brief = para]]_vars

\* Reached by a bare paragraph and two brief commands: the second brief
\* command's span follows the first's and Detailed keeps its one paragraph.
C3_Witness ==
    /\ Len(doc) = 3
    /\ IsBrief(doc[2]) /\ IsBrief(doc[3])
    /\ record.Brief = NormalParagraph(<<NewSummary, More>>)
    /\ Len(record.Detailed) = 1

\* The member the routing table of the specification names for a command.
TableField(command) ==
    CASE command \in {"author", "authors"} -> "Author"
      [] command = "copyright" -> "Copyright"
      [] command = "since" -> "Since"
      [] command = "version" -> "Version"
      [] command = "pre" -> "Preconditions"
      [] command = "pos" -> "Postconditions"

C5_PostCommand ==
    [][(Passed /\ doc'[Len(doc')].kind = "BlockCommandComment" /\ doc'[Len(doc')].name = "post") =>
          record' = [record EXCEPT !.Postconditions =
                        Append(@, ParseComments(doc'[Len(doc')], className))]]_vars

\* A GDScript or C# code paragraph.
IsCode(para) == para.Type \in {"GDScript", "CSharpCode"}

\* Position of the last non-empty paragraph of paras before position i, or 0.
PrevNonEmpty(paras, i) ==
    IF \E h \in 1..(i - 1) : ~ParagraphEmpty(paras[h])
    THEN CHOOSE h \in 1..(i - 1) :
            ~ParagraphEmpty(paras[h]) /\ \A m \in (h + 1)..(i - 1) : ParagraphEmpty(paras[m])
    ELSE 0

\* paras[j] is a code paragraph of the other language than the code paragraph paras[i].
OtherLanguage(paras, i, j) ==
    j <= Len(paras) /\ IsCode(paras[i]) /\ IsCode(paras[j]) /\ paras[i].Type # paras[j].Type

RECURSIVE IsSecond(_, _)
\* paras[i] is the second paragraph of a block of two: the non-empty paragraph
\* before it is a code paragraph of the other language that is not itself a second.
IsSecond(paras, i) ==
    LET h == PrevNonEmpty(paras, i)
    IN  h > 0 /\ OtherLanguage(paras, h, i) /\ ~IsSecond(paras, h)

\* The body of the record has been written.
BodyWritten == pc = "written" /\ call.mode = "detailed"

\* The non-empty code paragraphs of Detailed.
CodeParagraphs ==
    {i \in 1..Len(record.Detailed) :
        IsCode(record.Detailed[i]) /\ ~ParagraphEmpty(record.Detailed[i])}

\* The block of the code paragraph at position i of Detailed: one
\* [codeblocks] block with its next non-empty paragraph when that is code of
\* the other language, a [codeblock] block of its own otherwise.
CodeBlockOf(i) ==
    LET paras == record.Detailed
        j     == NextNonEmpty(paras, i)
    IN  IF OtherLanguage(paras, i, j)
        THEN WriteCodeBlocks(paras[i], paras[j], call.indent)
        ELSE WriteCodeBlock(paras[i], call.indent)

\* C6: going through Detailed in order, every non-empty code paragraph that
\* has not been written as the second paragraph of the block before it is
\* written in one [codeblocks] block with its next non-empty paragraph when
\* that is code of the other language, and in a [codeblock] block of its own
\* otherwise; the second paragraph of a block is not written again: the text
\* holds one [codeblocks] per pair and one [codeblock] per code paragraph on
\* its own and per non-empty VerbatimText paragraph.
C6_CodeAlternation ==
    BodyWritten =>
        LET paras  == record.Detailed
            firsts == {i \in CodeParagraphs : ~IsSecond(paras, i)}
            pairs  == {i \in firsts : OtherLanguage(paras, i, NextNonEmpty(paras, i))}
            texts  == {i \in 1..Len(paras) :
                          paras[i].Type = "VerbatimText" /\ ~ParagraphEmpty(paras[i])}
        IN  /\ \A i \in firsts : Contains(out, CodeBlockOf(i))
            /\ Count(out, "[codeblocks]") = Cardinality(pairs)
            /\ Count(out, "[codeblock") = Cardinality(firsts \ pairs) + Cardinality(texts)

\* Reached by a C#, a GDScript and a C# code block: the first two are
\* written as one [codeblocks] block and the third on its own.
C6_Witness ==
    /\ BodyWritten
    /\ Len(record.Detailed) = 3
    /\ CodeParagraphs = {1, 2, 3}
    /\ record.Detailed[1].Type = "CSharpCode"
    /\ record.Detailed[2].Type = "GDScript"
    /\ record.Detailed[3].Type = "CSharpCode"
    /\ Count(out, "[codeblocks]") = 1
    /\ Count(out, "[codeblock") = 1

\* The texts of the lines of a verbatim block.
LineTexts(block) == [i \in 1..Len(block.children) |-> block.children[i].text]

\* The paragraph the claim C7 gives a verbatim block.
VerbatimParagraphOf(block) ==
    LET texts == LineTexts(block)
        first == IF block.name = "code" /\ texts # <<>> THEN trim(texts[1]) ELSE <<>>
    IN  IF first = GdMarker THEN [Data |-> Tail(texts), Type |-> "GDScript"]
        ELSE IF first = CsMarker THEN [Data |-> Tail(texts), Type |-> "CSharpCode"]
        ELSE [Data |-> texts, Type |-> "VerbatimText"]

C8_TxtMarker ==
    [][(/\ Passed
        /\ doc'[Len(doc')].kind = "VerbatimBlockComment"
        /\ doc'[Len(doc')].name = "code"
        /\ LineTexts(doc'[Len(doc')]) # <<>>
        /\ trim(LineTexts(doc'[Len(doc')])[1]) = TxtMarker) =>
          record'.Detailed =
              ParseVerbatim(record.Detailed, "verbatim",
                  VerbatimBlockComment("verbatim", Tail(doc'[Len(doc')].children)))]_vars

\* The greatest number of a non-empty set of numbers.
Max(S) == CHOOSE x \in S : \A y \in S : y <= x

\* Positions in doc of the parameter commands that are not variable-argument.
ParamDocs ==
    {i \in 1..Len(doc) : doc[i].kind = "ParamCommandComment" /\ ~doc[i].isVarArg}

\* The indices they document.
Documented == {doc[i].index : i \in ParamDocs}

\* The last of them for index k.
LastFor(k) == doc[Max({i \in ParamDocs : doc[i].index = k})]

ParameterLine(entry, indent) ==
    Indent(indent) \o EscapeXML(NamePrefix(entry.Name))
        \o EscapeXML(trim(Concat(entry.Description.Data)))

\* The Parameters header followed by one line break and lines[i] per entry.
ParametersSection(lines, indent) ==
    Indent(indent) \o Title(<<"Parameters">>)
        \o Concat([i \in 1..Len(lines) |-> <<"\n">> \o lines[i]])

\* The Parameters section is due: the body was written with printFunctionInfo
\* and the parameter list has an entry.
ParametersDue == BodyWritten /\ call.printFunctionInfo /\ record.ParameterDescs # <<>>

\* C10 as claimed: the header is followed by one bulleted, bold-named line
\* for each entry of the list, in index order.
C10_LinePerEntry ==
    ParametersDue =>
        Contains(out, ParametersSection(
            [i \in 1..Len(record.ParameterDescs) |->
                ParameterLine(record.ParameterDescs[i], call.indent)], call.indent))

\* C10 as amended: the header is followed by one line for each entry, in
\* index order: the bulleted, bold-named line when the entry's description
\* has text, an empty line when it has none; no other bullet is written.
C10_ParameterLines ==
    ParametersDue =>
        LET list == record.ParameterDescs
        IN  /\ Contains(out, ParametersSection(
                  [i \in 1..Len(list) |->
                      IF ParagraphEmpty(list[i].Description) THEN <<>>
                      ELSE ParameterLine(list[i], call.indent)], call.indent))
            /\ Count(out, Bullet[1]) =
                  Cardinality({i \in 1..Len(list) : ~ParagraphEmpty(list[i].Description)})

\* Reached by commands for index 2 and index 1 with text: the line of
\* index 0 is empty and two bulleted lines follow it.
C10_Witness ==
    /\ ParametersDue
    /\ Len(record.ParameterDescs) = 3
    /\ ParagraphEmpty(record.ParameterDescs[1].Description)
    /\ ~ParagraphEmpty(record.ParameterDescs[2].Description)
    /\ ~ParagraphEmpty(record.ParameterDescs[3].Description)
    /\ Count(out, Bullet[1]) = 2

-----------------------------------------------------------------------------
(* Reference resolution *)

\* s has a period.
HasPeriod(s) == \E i \in 1..Len(s) : s[i] = "."

\* Position of the first period of s.
FirstPeriod(s) == CHOOSE i \in 1..Len(s) : s[i] = "." /\ \A j \in 1..(i - 1) : s[j] # "."

\* The fragment the reference kind:rest resolves to for the owner.
Fragment(kind, rest, owner) ==
    IF kind = <<"o","p","e","r","a","t","o","r">>
    THEN IF HasPeriod(rest)
         THEN <<"[operator", " ">> \o SubSeq(rest, 1, FirstPeriod(rest))
                \o <<"operator", " ">> \o SubSeq(rest, FirstPeriod(rest) + 1, Len(rest)) \o <<"]">>
         ELSE <<"[operator", " ">> \o owner \o <<".", "operator", " ">> \o rest \o <<"]">>
    ELSE IF kind \in {<<"a","n","n","o","t","a","t","i","o","n">>, <<"c","o","n","s","t","a","n","t">>,
                      <<"e","n","u","m">>, <<"m","e","m","b","e","r">>, <<"m","e","t","h","o","d">>,
                      <<"c","o","n","s","t","r","u","c","t","o","r">>, <<"s","i","g","n","a","l">>,
                      <<"t","h","e","m","e","_","i","t","e","m">>}
    THEN IF HasPeriod(rest)
         THEN <<"[">> \o kind \o <<" ">> \o rest \o <<"]">>
         ELSE <<"[">> \o kind \o <<" ">> \o owner \o <<".">> \o rest \o <<"]">>
    ELSE <<"[">> \o RefToken(kind, rest) \o <<"]">>

\* C11: the paragraph of every ref command is the one fragment of its token:
\* [operator <ownerPrefix>operator <opName>] for operator:rest split at the
\* first period of rest, the prefix keeping the period, or [operator
\* <owner>.operator <rest>] when rest has no period; [<kind> <rest>] for one
\* of the eight kinds when rest has a period and [<kind> <owner>.<rest>]
\* otherwise; [<token>] for every other token.
C11_ReferenceResolution ==
    \A i \in 1..Len(doc) :
        /\ \A kind \in RefKinds, rest \in RefRests :
              doc[i] = RefBlock(RefToken(kind, rest)) =>
                  record.Since[i] = NormalParagraph(<<Fragment(kind, rest, className)>>)
        /\ \A token \in PlainTokens :
              doc[i] = RefBlock(token) =>
                  record.Since[i] = NormalParagraph(<<<<"[">> \o token \o <<"]">>>>)

\* Reached by `ref operator:Vector2.+` for the owner Player.
C11_Witness ==
    /\ Len(doc) = 1
    /\ doc[1] = RefBlock(RefToken(<<"o","p","e","r","a","t","o","r">>, <<"Vector2", ".", "+">>))
    /\ record.Since[1].Data =
          << <<"[operator", " ", "Vector2", ".", "operator", " ", "+", "]">> >>

-----------------------------------------------------------------------------
(* Inline command expansion *)

RECURSIVE SpacedArgs(_)
\* Each argument preceded by one space.
SpacedArgs(args) ==
    IF args = <<>> THEN <<>> ELSE <<" ">> \o Head(args) \o SpacedArgs(Tail(args))

\* What a child of a paragraph yields for the owner.
Yield(child, owner) ==
    LET X == child.args[1]
    IN  CASE child.kind = "TextComment" -> child.text
          [] child.kind = "HTMLStartTagComment" -> <<>>
          [] child.name = "a" -> <<"[param", " ">> \o X \o <<"]">>
          [] child.name = "b" -> <<"[b]">> \o X \o <<"[/b]">>
          [] child.name = "c" -> <<"[code]">> \o X \o <<"[/code]">>
          [] child.name \in {"e", "em"} -> <<"[i]">> \o X \o <<"[/i]">>
          [] child.name = "n" -> <<"[br]">>
          [] child.name = "p" -> <<"[member", " ">> \o owner \o <<".">> \o X \o <<"]">>
          [] OTHER -> X \o SpacedArgs(Tail(child.args))

-----------------------------------------------------------------------------
(* Escaping *)

\* What one character is replaced by.
Entity(c) ==
    CASE c = "\"" -> <<"&", "q", "u", "o", "t", ";">>
      [] c = "'"  -> <<"&", "a", "p", "o", "s", ";">>
      [] c = "<"  -> <<"&", "l", "t", ";">>
      [] c = ">"  -> <<"&", "g", "t", ";">>
      [] c = "&"  -> <<"&", "a", "m", "p", ";">>
      [] OTHER    -> <<c>>

\* The text of a paragraph that has text, and nothing for an empty one.
TextOf(para) == IF ParagraphEmpty(para) THEN <<>> ELSE Concat(para.Data)

\* The text of the paragraphs that have text.
TextsOf(paras) == Concat([i \in 1..Len(paras) |-> TextOf(paras[i])])

\* The names and descriptions of the entries whose description has text.
EntriesOf(params) ==
    Concat([i \in 1..Len(params) |->
               IF ParagraphEmpty(params[i].Description) THEN <<>>
               ELSE params[i].Name \o TextOf(params[i].Description)])

\* The URLs and titles of the tutorials.
TutorialsOf(tutorials) ==
    Concat([i \in 1..Len(tutorials) |-> tutorials[i].URL \o TextOf(tutorials[i].Title)])

\* The comment text the last call wrote from.
Payload ==
    CASE call.mode = "detailed" ->
            TextOf(record.Brief) \o TextsOf(record.Detailed) \o TextsOf(record.Since)
              \o TextsOf(record.Preconditions) \o TextsOf(record.Postconditions)
              \o EntriesOf(record.ParameterDescs) \o TextOf(record.ReturnDesc)
              \o EntriesOf(record.ReturnValues) \o TextsOf(record.Author)
              \o TextsOf(record.Version) \o TextsOf(record.Copyright)
      [] call.mode = "attributes" ->
            (IF record.Deprecated.IsTagPresent THEN TextOf(record.Deprecated.Message) ELSE <<>>)
              \o (IF record.Experimental.IsTagPresent
                  THEN TextOf(record.Experimental.Message) ELSE <<>>)
      [] OTHER -> TutorialsOf(record.Tutorials)

\* How many atoms of text are one of the five characters.
Specials(text) == Cardinality({i \in 1..Len(text) : text[i] \in {"\"", "'", "<", ">", "&"}})

\* The quotes and angle brackets of the markup around the text: the quotes
\* of an attribute or a title, the > that closes a link tag.
MarkupQuotes ==
    CASE call.mode = "detailed" -> 0
      [] call.mode = "attributes" ->
            (IF record.Deprecated.IsTagPresent THEN 2 ELSE 0)
              + (IF record.Experimental.IsTagPresent THEN 2 ELSE 0)
      [] OTHER -> 2 * Cardinality({i \in 1..Len(record.Tutorials) :
                                      ~ParagraphEmpty(record.Tutorials[i].Title)})

MarkupBrackets == IF call.mode = "tutorials" THEN Len(record.Tutorials) ELSE 0

\* Every span the record holds.
Spans ==
    LET paras == <<record.Brief, record.ReturnDesc, record.Deprecated.Message>>
                   \o record.Detailed \o record.Since
    IN  UNION {{paras[i].Data[k] : k \in 1..Len(paras[i].Data)} : i \in 1..Len(paras)}

\* C13: the escaper replaces each " ' < > & by its entity and leaves every
\* other character as it is, in order; the text a call of the renderer writes
\* holds one entity for each such character of the comment text it writes
\* from (each span is escaped once and no more), and no " ' < > other than
\* those of the markup around the text.
C13_Escaping ==
    /\ \A span \in Spans :
          EscapeXML(span) = Concat([k \in 1..Len(span) |-> Entity(span[k])])
    /\ pc = "written" =>
          /\ Count(out, "&") = Specials(Payload)
          /\ Count(out, ";") = Specials(Payload)
          /\ Count(out, "\"") = MarkupQuotes
          /\ Count(out, ">") = MarkupBrackets
          /\ Count(out, "<") = 0
          /\ Count(out, "'") = 0

\* Reached by a verbatim block and a parameter description with the five
\* characters, written as the body.
C13_Witness ==
    /\ pc = "written" /\ call.mode = "detailed"
    /\ Len(record.Detailed) = 1 /\ record.Detailed[1].Data = <<Quoted>>
    /\ Len(record.ParameterDescs) = 1
    /\ Specials(Payload) = 15
    /\ Contains(out, <<"&", "q", "u", "o", "t", ";", "&", "l", "t", ";", "a", "&", "g", "t", ";",
                       "&", "a", "m", "p", ";", "&", "a", "p", "o", "s", ";", "b">>)

-----------------------------------------------------------------------------
(* Attributes *)

\* The block commands of the name among the nodes d, in document order.
CommandsNamed(d, name) ==
    SelectSeq(d, LAMBDA node : node.kind = "BlockCommandComment" /\ node.name = name)

\* The pair key="value" for the last command of the name, nothing without one.
AttributePair(key, name) ==
    LET seen == CommandsNamed(doc, name)
    IN  IF seen = <<>> THEN <<>>
        ELSE <<" ", key, "\"">>
               \o WriteSingleLine(ParseComments(seen[Len(seen)], className), 0, <<>>).text
               \o <<"\"">>

\* C14: the attributes written are a deprecated pair exactly when a
\* deprecated command was seen, then an experimental pair exactly when an
\* experimental command was seen, the value of each the flattened and
\* escaped message of the last such command, which may be empty; a record
\* built from an absent comment tree writes nothing.
C14_AttributeMode ==
    /\ [](pc = "written" /\ call.mode = "attributes" =>
            out = AttributePair("deprecated=", "deprecated")
                    \o AttributePair("experimental=", "experimental"))
    /\ [][pc = "absent" /\ pc' = "written" => out' = <<>>]_vars

\* Reached by two deprecated commands, the last with the message " Body.",
\* and an experimental command without a message.
C14_Witness ==
    /\ pc = "written" /\ call.mode = "attributes"
    /\ doc = <<Block("deprecated", <<>>, Quoted), Block("experimental", <<>>, Blank),
               Block("deprecated", <<>>, Body)>>
    /\ out = <<" ", "deprecated=", "\"", "B", "o", "d", "y", ".", "\"",
               " ", "experimental=", "\"", "\"">>

-----------------------------------------------------------------------------
(* Section order *)

\* The atoms of a text.
Atoms(text) == {text[i] : i \in 1..Len(text)}

\* The section an atom of the body belongs to: 1 Brief, 2 Detailed, 3 Since,
\* 4 Preconditions, 5 Postconditions, 6 Parameters, 7 Return, 8 Authors,
\* 9 Version, 10 Copyright; 0 for markup and white space.
SectionOf(a) ==
    CASE a \in {" ", "\n"} -> 0
      [] a \in Atoms(TextOf(record.Brief)) -> 1
      [] a \in Atoms(TextsOf(record.Detailed)) -> 2
      [] a = "Since" \/ a \in Atoms(TextsOf(record.Since)) -> 3
      [] a = "Preconditions" \/ a \in Atoms(TextsOf(record.Preconditions)) -> 4
      [] a = "Postconditions" \/ a \in Atoms(TextsOf(record.Postconditions)) -> 5
      [] a = "Parameters" \/ a \in Atoms(EntriesOf(record.ParameterDescs)) -> 6
      [] a = "Return" \/ a \in Atoms(TextOf(record.ReturnDesc))
                      \/ a \in Atoms(EntriesOf(record.ReturnValues)) -> 7
      [] a = "Authors" \/ a \in Atoms(TextsOf(record.Author)) -> 8
      [] a = "Version" \/ a \in Atoms(TextsOf(record.Version)) -> 9
      [] a = "Copyright" \/ a \in Atoms(TextsOf(record.Copyright)) -> 10
      [] OTHER -> 0

\* The sections of the atoms of the text written, in the order written.
SectionsWritten == SelectSeq([i \in 1..Len(out) |-> SectionOf(out[i])], LAMBDA n : n # 0)

SectionHeaders ==
    {"Since", "Preconditions", "Postconditions", "Parameters", "Return", "Authors",
     "Version", "Copyright"}

\* C15: in the body written, for every flag combination, the text of the
\* sections comes in the order Brief, Detailed, Since, Preconditions,
\* Postconditions, Parameters, Return, Authors, Version, Copyright, no
\* section comes back after a later one, and no header is written twice:
\* one Return header at most with a return description and return values.
C15_SectionOrder ==
    BodyWritten =>
        /\ LET sections == SectionsWritten
           IN  \A i \in 1..(Len(sections) - 1) : sections[i] <= sections[i + 1]
        /\ \A header \in SectionHeaders : Count(out, header) <= 1

\* Reached by a comment with a node for every section, written with the
\* brief and the function information: all ten sections are in the text.
C15_Witness ==
    /\ BodyWritten /\ call.printBrief /\ call.printFunctionInfo
    /\ Len(doc) = Len(SectionNodes)
    /\ LET sections == SectionsWritten
       IN  {sections[i] : i \in 1..Len(sections)} = 1..10
    /\ Count(out, "Return") = 1
    /\ Contains(out, <<"rd", "\n">>) /\ Contains(out, <<"rv", "\n">>)

-----------------------------------------------------------------------------
(* Flattening *)

\* The body holds the Parameters section of one entry and nothing else.
OneParameterWritten == BodyWritten /\ Len(record.ParameterDescs) = 1

\* The one line of that section, after the newline that starts it.
FlattenedLine ==
    SubSeq(out, Len(Indent(call.indent) \o Title(<<"Parameters">>)) + 2, Len(out))

\* The label of that line, as written.
LineLabel == Indent(call.indent) \o EscapeXML(NamePrefix(record.ParameterDescs[1].Name))

\* C16: a paragraph flattened with a label is written with the label once,
\* before everything else of the paragraph, when it has a span that is not
\* blank, and flattening reports written; for a paragraph of blank spans
\* nothing is written, neither indent nor label, and flattening reports not
\* written.
C16_FlattenLabel ==
    OneParameterWritten =>
        LET para == record.ParameterDescs[1].Description
            line == WriteSingleLine(para, call.indent, NamePrefix(record.ParameterDescs[1].Name))
        IN  /\ FlattenedLine = line.text
            /\ IF ParagraphEmpty(para)
               THEN line.text = <<>> /\ ~line.written
               ELSE /\ line.written
                    /\ SubSeq(line.text, 1, Len(LineLabel)) = LineLabel
                    /\ Count(line.text, "[b][code]") = 1
                    /\ Len(line.text) > Len(LineLabel)

\* Reached by a description of a blank line then a word: the label is
\* written once, before the word.
C16_Witness ==
    /\ OneParameterWritten
    /\ record.ParameterDescs[1].Description.Data = <<Blank, <<"w">>>>
    /\ FlattenedLine = LineLabel \o <<"w">>

\* The text of the line after its label.
AfterLabel == SubSeq(FlattenedLine, Len(LineLabel) + 1, Len(FlattenedLine))

\* C17: for a paragraph with a span that is not blank, the text written after
\* the label begins with a character that is not white space and ends with
\* one.
C17_FlattenTrim ==
    (OneParameterWritten /\ ~ParagraphEmpty(record.ParameterDescs[1].Description)) =>
        /\ AfterLabel # <<>>
        /\ AfterLabel[1] \notin Whitespace
        /\ AfterLabel[Len(AfterLabel)] \notin Whitespace

-----------------------------------------------------------------------------
(* Optional sections *)

\* A paragraph sequence with no members, or whose members are all empty.
SequenceEmpty(paras) == \A i \in 1..Len(paras) : ParagraphEmpty(paras[i])

\* The sequence, or no members for an empty sequence.
Kept(paras) == IF SequenceEmpty(paras) THEN <<>> ELSE paras

\* The record without the members of its empty optional sections.
WithoutEmptySections(rec) ==
    [rec EXCEPT !.Since = Kept(@), !.Preconditions = Kept(@), !.Postconditions = Kept(@),
                !.Author = Kept(@), !.Version = Kept(@), !.Copyright = Kept(@)]

\* C18: an optional section whose paragraph sequence is empty, having no
\* members or only empty ones, adds nothing to the body, neither header,
\* content nor separator, and changes nothing of the sections after it: the
\* body is the body of the record without such sequences.
C18_OptionalSections ==
    BodyWritten =>
        out = WriteDetailed(WithoutEmptySections(record), call.printBrief,
                            call.printFunctionInfo, call.indent)

-----------------------------------------------------------------------------
(* Common indentation *)

\* The length of the white space a line starts with.
LeadingWhitespace(line) ==
    Cardinality({i \in 1..Len(line) : \A j \in 1..i : line[j] \in Whitespace})

\* A line with a character that is not white space.
HasText(line) == \E i \in 1..Len(line) : line[i] \notin Whitespace

\* The least of a non-empty set of numbers.
Least(S) == CHOOSE n \in S : \A m \in S : n <= m

\* The body holds one verbatim paragraph with text.
OneBlockWritten ==
    /\ BodyWritten
    /\ Len(record.Detailed) = 1
    /\ ~ParagraphEmpty(record.Detailed[1])

\* The [codeblock] block of lines written after the first amount characters
\* of each are taken off, white space at the end of a line apart.
Stripped(lines, amount) ==
    Indent(call.indent) \o <<"[codeblock", " ", "lang=", "text", "]", "\n">>
      \o Concat([i \in 1..Len(lines) |->
                    Indent(call.indent)
                      \o EscapeXML(rtrim(SubSeq(lines[i], amount + 1, Len(lines[i]))))
                      \o <<"\n">>])
      \o Indent(call.indent) \o <<"[/codeblock]">>

\* C19 as stated: the strip amount is the least leading-whitespace length
\* over all lines of the paragraph, and that many leading characters are
\* taken off every line.
C19_LeastOverAllLines ==
    OneBlockWritten =>
        LET lines == record.Detailed[1].Data
        IN  out = Stripped(lines, Least({LeadingWhitespace(lines[i]) : i \in 1..Len(lines)}))

\* C19, amended: the strip amount is the least leading-whitespace length
\* over the lines that have a character that is not white space; that many
\* leading characters are taken off each of them, so that their relative
\* indentation is kept and none of their other characters is removed, and a
\* line of white space only is written as an empty line.
C19_CommonIndentation ==
    OneBlockWritten =>
        LET lines  == record.Detailed[1].Data
            amount == Least({LeadingWhitespace(lines[i]) : i \in {k \in 1..Len(lines) : HasText(lines[k])}})
        IN  /\ out = Stripped(lines, amount)
            /\ \A i \in 1..Len(lines) :
                  HasText(lines[i]) =>
                      \A k \in 1..amount : lines[i][k] \in Whitespace

\* Reached by the lines ' f', an empty line and '  b ': written as 'f', an
\* empty line and ' b'.
C19_Witness ==
    /\ OneBlockWritten /\ call.indent = 0
    /\ record.Detailed[1].Data = <<<<" ", "f">>, <<>>, <<" ", " ", "b", " ">>>>
    /\ out = <<"[codeblock", " ", "lang=", "text", "]", "\n",
               "f", "\n", "\n", " ", "b", "\n", "[/codeblock]">>

-----------------------------------------------------------------------------
(* Tutorials *)

\* A span with a character that is not white space is at position k of
\* spans, and none before it.
FirstNonBlank(spans, k) ==
    /\ k \in 1..Len(spans)
    /\ HasText(spans[k])
    /\ \A j \in 1..(k - 1) : ~HasText(spans[j])

\* entry is the tutorial entry of a paragraph of the spans: its URL the
\* first token of the first span that is not blank, its title the rest of
\* the paragraph.
IsTutorialEntry(entry, spans) ==
    \E k \in 1..Len(spans) :
        /\ FirstNonBlank(spans, k)
        /\ LET span == trim(spans[k])
               n    == Len(entry.URL)
           IN  /\ n > 0
               /\ \A i \in 1..n : entry.URL[i] \notin Whitespace
               /\ SubSeq(span, 1, n) = entry.URL
               /\ n = Len(span) \/ span[n + 1] \in Whitespace
               /\ entry.Title.Type = "Normal"
               /\ Concat(entry.Title.Data)
                    = Concat(SubSeq(spans, 1, k - 1))
                        \o ltrim(SubSeq(span, n + 1, Len(span)))
                        \o Concat(SubSeq(spans, k + 1, Len(spans)))

\* C20: a tutorial command whose paragraph has a span that is not blank
\* appends one entry, after the entries there are, with the first token of
\* that span as its URL, not empty and without white space, and the rest of
\* the paragraph as its title; a tutorial command whose paragraph has no
\* such span leaves the record as it is; no other field changes either way.
C20_TutorialParsing ==
    [][(Passed /\ doc'[Len(doc')].name = "tutorial") =>
          LET spans == ParseComments(doc'[Len(doc')], className).Data
          IN  IF \E k \in 1..Len(spans) : HasText(spans[k])
              THEN /\ Len(record'.Tutorials) = Len(record.Tutorials) + 1
                   /\ record' = [record EXCEPT !.Tutorials =
                                    Append(@, record'.Tutorials[Len(record'.Tutorials)])]
                   /\ IsTutorialEntry(record'.Tutorials[Len(record'.Tutorials)], spans)
              ELSE record' = record]_vars

\* Reached by a tutorial of a blank line then ' u  t ', after a tutorial of
\* the URL alone: the second entry has the URL u and the title ' ' then 't'.
C20_Witness ==
    /\ Len(doc) = 2
    /\ doc[1] = TutorialNode(<<<<"u">>>>)
    /\ doc[2] = TutorialNode(<<Blank, <<" ", "u", " ", " ", "t", " ">>>>)
    /\ record.Tutorials
         = <<Tutorial(<<"u">>, NormalParagraph(<<>>)),
             Tutorial(<<"u">>, NormalParagraph(<<Blank, <<"t">>>>))>>

-----------------------------------------------------------------------------
(* The visitor's collections *)

\* The positions in the declarations passed of the accessors of a property
\* that carry a comment.
Commented(annotation, property) ==
    {i \in 1..Len(visitor.decls) :
        /\ visitor.decls[i].kind = "CXXMethodDecl"
        /\ visitor.decls[i].annotation = annotation
        /\ visitor.decls[i].property = property
        /\ visitor.decls[i].comment.present}

\* The record the constructor builds from the comment of the declaration at
\* a position, for a class.
DocumentationAt(i, class) == Constructed(class, visitor.decls[i].comment)

\* C22: the documentation stored for a property is built from the comment of
\* its getter when a getter with a comment has been visited, whichever of
\* getter and setter was visited first; it is built from the comment of a
\* setter only when no getter with a comment has been visited, and there is
\* none when neither has a comment.
C22_GetterPreferred ==
    \A property \in DOMAIN visitor.properties :
        LET getters == Commented("godot::getter", property)
            setters == Commented("godot::setter", property)
            stored  == visitor.properties[property].Documentation
            class   == visitor.decls[1].name
        IN  IF getters # {}
            THEN /\ stored # <<>>
                 /\ \E i \in getters : stored[1] \in DocumentationAt(i, class)
                 /\ \A i \in setters : stored[1] \notin DocumentationAt(i, class)
            ELSE IF setters # {}
            THEN /\ stored # <<>>
                 /\ \E i \in setters : stored[1] \in DocumentationAt(i, class)
            ELSE stored = <<>>

\* A getter with a comment was visited, then a setter with a comment; the
\* property keeps the getter's summary.
C22_Witness ==
    /\ Len(visitor.decls) = 3
    /\ visitor.decls[2].annotation = "godot::getter"
    /\ visitor.decls[2].comment.present
    /\ visitor.decls[3].annotation = "godot::setter"
    /\ visitor.decls[3].comment.present
    /\ visitor.properties[<<"p">>].Documentation # <<>>
    /\ visitor.properties[<<"p">>].Documentation[1].Brief.Data = <<<<"G", ".">>>>

\* The exported class the declaration at a position is a member of: the last
\* record declared before it (records are not nested here).
ClassOf(i) ==
    LET records == {j \in 1..i : visitor.decls[j].kind = "CXXRecordDecl"}
    IN  visitor.decls[CHOOSE j \in records : \A h \in records : h <= j].name

\* The names a declaration gives an entry of a collection to.
EntryNames(declaration) ==
    CASE declaration.kind = "EnumDecl" ->
            {declaration.enumerators[i].name : i \in 1..Len(declaration.enumerators)}
      [] declaration.kind = "CXXMethodDecl" ->
            IF declaration.annotation \in {"godot::getter", "godot::setter"}
            THEN {declaration.property} ELSE {declaration.name}
      [] OTHER -> {}

\* The names the members of a class give entries to.
DeclaredIn(class) ==
    UNION {EntryNames(visitor.decls[i]) :
              i \in {j \in 1..Len(visitor.decls) :
                        visitor.decls[j].kind # "CXXRecordDecl" /\ ClassOf(j) = class}}

\* The names of the elements of a document.
Listed(document) ==
    {element.name : element \in document.methods \cup document.signals \cup document.constants}
      \cup {element.name : element \in document.members}

\* C23: when no class is open the four collections are empty, and the
\* document of a class lists only entries of declarations of that class.
C23_Drained ==
    /\ visitor.currentClass = <<>> =>
            /\ visitor.methods = EmptyMap
            /\ visitor.properties = EmptyMap
            /\ visitor.signals = EmptyMap
            /\ visitor.constants = EmptyMap
    /\ \A k \in 1..Len(visitor.documents) :
            visitor.documents[k].closed =>
                Listed(visitor.documents[k]) \subseteq DeclaredIn(visitor.documents[k].name)

-----------------------------------------------------------------------------
(* What the body does not depend on *)

\* A paragraph and a status tag that no comment above produces.
OtherParagraph == AppendText(Paragraph("Normal"), <<"o", "t", "h", "e", "r">>)

OtherTags == {StatusTag, [IsTagPresent |-> TRUE, Message |-> OtherParagraph]}

\* The records that differ from rec at most in the members no body reads.
StatusVariants(rec) ==
    {[rec EXCEPT !.Deprecated = d, !.Experimental = e, !.Tutorials = t] :
        d \in OtherTags \cup {rec.Deprecated}, e \in OtherTags \cup {rec.Experimental},
        t \in {<<>>, <<Tutorial(<<"v">>, OtherParagraph)>>, rec.Tutorials}}

\* The records that differ from rec at most in Brief.
BriefVariants(rec) ==
    {[rec EXCEPT !.Brief = b] : b \in {rec.Brief, Paragraph("Normal"), OtherParagraph}}

\* The records that differ from rec at most in one of the members written
\* under printFunctionInfo.
InfoVariants(rec) ==
    {rec}
      \cup {[rec EXCEPT !.Preconditions = p] : p \in {<<>>, <<OtherParagraph>>}}
      \cup {[rec EXCEPT !.Postconditions = p] : p \in {<<>>, <<OtherParagraph>>}}
      \cup {[rec EXCEPT !.ParameterDescs = p] : p \in {<<>>, <<Parameters(<<"z">>, OtherParagraph)>>}}
      \cup {[rec EXCEPT !.ReturnDesc = p] : p \in {Paragraph("Normal"), OtherParagraph}}
      \cup {[rec EXCEPT !.ReturnValues = p] : p \in {<<>>, <<Parameters(<<"z">>, OtherParagraph)>>}}

\* The records the body written is claimed to be the same for.
SameBody ==
    UNION {UNION {IF call.printFunctionInfo THEN {w} ELSE InfoVariants(w) :
                    w \in IF call.printBrief THEN {v} ELSE BriefVariants(v)} :
             v \in StatusVariants(record)}

\* C24: the body written is the body of every record that differs from the
\* record only in Deprecated, Experimental and Tutorials, and, when
\* printBrief is false, in Brief, and, when printFunctionInfo is false, in
\* Preconditions, Postconditions, ParameterDescs, ReturnDesc or ReturnValues;
\* the same record and arguments always give the same text.
C24_BodyIndependence ==
    BodyWritten =>
        \A rec \in SameBody :
            WriteDetailed(rec, call.printBrief, call.printFunctionInfo, call.indent) = out

\* A record with a summary, a deprecation, a tutorial and a precondition was
\* written without its summary and its function information, and text came out.
C24_Witness ==
    /\ BodyWritten
    /\ ~call.printBrief
    /\ ~call.printFunctionInfo
    /\ ~ParagraphEmpty(record.Brief)
    /\ record.Deprecated.IsTagPresent
    /\ record.Tutorials # <<>>
    /\ record.Preconditions # <<>>
    /\ out # <<>>

-----------------------------------------------------------------------------
(* Prepended labels *)

\* The literal ParseBlock prepends to the paragraph of a command.
LabelOf(block) ==
    IF block.name = "par" THEN Title(block.args[1]) ELSE Admonition(block.name)

\* The text written after the indent and the label of the only paragraph.
AfterPrepended ==
    SubSeq(out, Len(Indent(call.indent) \o EscapeXML(LabelOf(doc[1]))) + 1, Len(out))

\* C25: for a labelled command whose paragraph is not empty, the paragraph
\* kept has the label as its first span, then the first span of the text
\* without leading white space, then the later spans as they were; and the
\* line written has the label followed directly by the first character of
\* the text that is not white space.
C25_LabelBinds ==
    Len(doc) = 1 =>
        LET original == ParseComments(doc[1], className)
            kept     == record.Detailed[1].Data
        IN  ~ParagraphEmpty(original) =>
                /\ kept[1] = LabelOf(doc[1])
                /\ Tail(Tail(kept)) = Tail(original.Data)
                /\ kept[2] = ltrim(original.Data[1])
                /\ kept[2] = <<>> \/ kept[2][1] \notin Whitespace
                /\ BodyWritten =>
                        /\ AfterPrepended # <<>>
                        /\ AfterPrepended[1] \notin Whitespace

-----------------------------------------------------------------------------
(* The order of the description *)

\* The block commands whose paragraph ParseBlock keeps in Detailed.
DetailedCommands == AdmonitionCommands \cup {"li", "par"} \cup OtherCommands

\* A node that always gives the description a paragraph.
DetailedNode(node) ==
    \/ node.kind \in {"VerbatimBlockComment", "VerbatimLineComment"}
    \/ node.kind = "BlockCommandComment" /\ node.name \in DetailedCommands

\* The step puts exactly one paragraph after the paragraphs of Detailed.
OneAppended ==
    /\ Len(record'.Detailed) = Len(record.Detailed) + 1
    /\ SubSeq(record'.Detailed, 1, Len(record.Detailed)) = record.Detailed

\* C26: every node kept in the description adds exactly one paragraph after
\* those already there, so the paragraphs are in the order of their nodes; a
\* bare paragraph does so unless it becomes the Brief; a brief command leaves
\* the description as it is or puts the old Brief before everything; no
\* other node changes the description.
C26_DocumentOrder ==
    [][Passed =>
        LET node == doc'[Len(doc')]
        IN  IF DetailedNode(node) THEN OneAppended
            ELSE IF node.kind = "ParagraphComment"
            THEN \/ OneAppended /\ record'.Brief = record.Brief
                 \/ record'.Detailed = record.Detailed
            ELSE IF IsBrief(node)
            THEN \/ record'.Detailed = record.Detailed
                 \/ record'.Detailed = <<record.Brief>> \o record.Detailed
            ELSE record'.Detailed = record.Detailed]_vars

\* A note, then a bare paragraph that became the Brief, then a brief
\* command: the bare paragraph stands before the note in the description.
C26_Witness ==
    /\ Len(doc) = 3
    /\ doc[1].name = "note"
    /\ doc[2].kind = "ParagraphComment"
    /\ IsBrief(doc[3])
    /\ Len(record.Detailed) = 2
    /\ record.Detailed[1] = ParseComments(doc[2], className)
    /\ record.Detailed[2].Data[1] = Admonition("note")

-----------------------------------------------------------------------------
(* Class scope *)

\* The step passes an annotated method or enum declared directly in the
\* exported class: the class is open and its record is the only one being
\* traversed.
DirectMember ==
    /\ Len(visitor'.decls) = Len(visitor.decls) + 1
    /\ visitor'.decls[Len(visitor'.decls)].kind \in {"CXXMethodDecl", "EnumDecl"}
    /\ Len(visitor.frames) = 1
    /\ visitor.frames[1].popClass

\* C27: every annotated method and enum declared directly in the exported
\* class is processed, that is a Process* method writes its binding, also
\* after a nested record has been traversed: the visitor is still inside the
\* exported class.
C27_ClassScope ==
    [][DirectMember =>
        /\ visitor.inClass
        /\ Len(visitor'.bindings) = Len(visitor.bindings) + 1]_vars

-----------------------------------------------------------------------------
(* Parameter index arithmetic *)

\* C28: a parameter command that is not for variable arguments, with index
\* i, leaves a list longer than i and no shorter than before, changes no
\* slot but slot i, and the constructor goes on.
C28_NoWrap ==
    [][(Passed /\ doc'[Len(doc')].kind = "ParamCommandComment" /\ ~doc'[Len(doc')].isVarArg) =>
        LET i      == doc'[Len(doc')].index
            before == record.ParameterDescs
            after  == record'.ParameterDescs
        IN  /\ Len(after) > i
            /\ Len(after) >= Len(before)
            /\ \A k \in 1..Len(before) : k - 1 # i => after[k] = before[k]
            /\ pc' = "parse"]_vars

-----------------------------------------------------------------------------
(* Separators *)

\* C29: the body written never begins with a newline: a separator is
\* written before a section only when an earlier section of the call wrote
\* text.
C29_NoLeadingSeparator ==
    BodyWritten => (out = <<>> \/ out[1] # "\n")

-----------------------------------------------------------------------------
(* Kinds of the paragraphs *)

\* Every paragraph of the list is of the Normal kind.
AllNormal(paras) == \A i \in 1..Len(paras) : paras[i].Type = "Normal"

\* The fields of the record outside Detailed hold Normal paragraphs only, and
\* every paragraph of Detailed is of one of the five kinds.
NormalOutsideDetailed(rec) ==
    /\ rec.Brief.Type = "Normal"
    /\ rec.ReturnDesc.Type = "Normal"
    /\ rec.Deprecated.Message.Type = "Normal"
    /\ rec.Experimental.Message.Type = "Normal"
    /\ \A i \in 1..Len(rec.Tutorials) : rec.Tutorials[i].Title.Type = "Normal"
    /\ \A i \in 1..Len(rec.ParameterDescs) : rec.ParameterDescs[i].Description.Type = "Normal"
    /\ \A i \in 1..Len(rec.ReturnValues) : rec.ReturnValues[i].Description.Type = "Normal"
    /\ \A field \in {"Author", "Copyright", "Since", "Version", "Preconditions",
                      "Postconditions"} : AllNormal(rec[field])
    /\ \A i \in 1..Len(rec.Detailed) :
            rec.Detailed[i].Type \in {"Normal", "List", "VerbatimText", "GDScript", "CSharpCode"}

\* The appends inside ParseComments(node): the result and the paragraph of
\* each child paragraph are Normal (an append leaves the kind of result as
\* it is), and the result holds the spans of every child paragraph.
NestedAppendsJoin(node, owner) ==
    LET children == node.children
        inner(k) == ParseComments(children[k], owner)
    IN  /\ ParseComments(node, owner).Type = "Normal"
        /\ \A k \in 1..Len(children) :
                children[k].kind = "ParagraphComment" => inner(k).Type = "Normal"
        /\ (\A k \in 1..Len(children) : children[k].kind = "ParagraphComment")
                => ParseComments(node, owner).Data
                      = Concat([k \in 1..Len(children) |-> inner(k).Data])

\* The field that the command appends its paragraph to, when it is one that
\* appends paragraph to paragraph: a brief command after a brief command
\* with Brief not empty, a return command.
AppendedField(node, rec, flag) ==
    IF node.kind # "BlockCommandComment" THEN ""
    ELSE IF node.name = "brief" /\ flag /\ ~ParagraphEmpty(rec.Brief) THEN "Brief"
    ELSE IF node.name \in {"result", "return", "returns"} THEN "ReturnDesc"
    ELSE ""

\* One step of the classifier keeps the kinds and joins Normal paragraphs.
KindStep ==
    /\ NormalOutsideDetailed(record)
    /\ NormalOutsideDetailed(record')
    /\ Len(doc') > Len(doc) =>
          LET node  == doc'[Len(doc')]
              field == AppendedField(node, record, hasBriefTag)
          IN  /\ node.kind \in {"BlockCommandComment", "ParagraphComment", "ParamCommandComment"}
                    => NestedAppendsJoin(node, className)
              /\ field # "" =>
                    /\ record[field].Type = "Normal"
                    /\ ParseComments(node, className).Type = "Normal"
                    /\ record'[field].Data
                          = record[field].Data \o ParseComments(node, className).Data

\* C30: in every record built, Brief, ReturnDesc, both status messages, every
\* tutorial title and every parameter and return-value description are of
\* the Normal kind and only Detailed holds a paragraph of kind List,
\* VerbatimText or a code kind; every append of a paragraph to a paragraph
\* made while a node is classified joins two Normal paragraphs, so the
\* target grows by every span of the paragraph appended.
C30_KindInvariant == [][KindStep]_vars

\* Reached by a list item then two brief commands, flag set from the start:
\* the second brief command is appended to the first.
C30_Witness ==
    /\ Len(doc) = 3
    /\ doc[1].name = "li" /\ doc[2].name = "brief" /\ doc[3].name = "brief"
    /\ doc[2] # doc[3]
    /\ record.Detailed # <<>> /\ record.Detailed[1].Type = "List"
    /\ record.Brief.Type = "Normal"
    /\ record.Brief.Data = <<NewSummary, More>>

====
